---- MODULE Spec2Model ----
(***************************************************************************)
(* Drug-mention graph engine of educep/mle_test.                           *)
(*                                                                         *)
(* The model follows one run: build_drug_mention_graph (main.py) builds    *)
(* the graph with a DrugMentionGraphTransformer, save_graph_to_json        *)
(* writes the document, load_graph_from_json reads it back and the two     *)
(* analytics queries of utils/helpers.py answer from the document.         *)
(* SpecReuse follows a transformer used for several builds, SpecImport the *)
(* import and the queries on documents written by hand, SpecEntities the   *)
(* construction, == and hash() of the entity values of models/schemas.py,  *)
(* SpecAnalytics the queries on paths that do not load, SpecPipeline the   *)
(* steps of run_pipeline (main.py) from the four input files to the two    *)
(* output files, SpecExtract one PublicationExtractor.extract call of      *)
(* pipeline/extractors.py.                                                 *)
(*                                                                         *)
(* Python strings are sequences of code points, so that lower(), slicing   *)
(* ([:20]), the "in" substring test and sort() are computed as Python      *)
(* computes them.  Python None is the value None below; a dictionary key   *)
(* that is not set is Absent.                                              *)
(***************************************************************************)
EXTENDS Integers, Sequences, FiniteSets, TLC

VARIABLES
    drugs,      \* argument `drugs` of the last build_graph call
    pubmed,     \* argument `pubmed_publications` of the last build_graph call
    trials,     \* argument `clinical_trials_publications` of the last call
    graph,      \* DrugMentionGraphTransformer.graph (self.graph)
    builds,     \* number of build_graph calls made on the transformer
    doc,        \* the JSON document on disk (NoDoc before the first save)
    loaded,     \* the graph returned by load_graph_from_json (NoGraph before)
    query,      \* the last analytics call: its name and drug_name argument
    result,     \* what that call returned
    pc,         \* position in the run
    files,      \* the four input files of run_pipeline (NoFiles outside it)
    pubmed_csv_list,    \* run_pipeline's local of that name
    pubmed_json_list,   \* run_pipeline's local of that name
    gml,        \* the GML file on disk (NoDoc before it is written)
    today       \* the day of the system clock, as pd.Timestamp.now() reads it

vars ==
    <<drugs, pubmed, trials, graph, builds, doc, loaded, query, result, pc,
      files, pubmed_csv_list, pubmed_json_list, gml, today>>

-----------------------------------------------------------------------------
(* The system clock *)

\* the days the clock shows in the runs of the model: 2020-01-01, 2026-10-30
ClockDay == [year |-> 2026, month |-> 10, day |-> 30]
ClockDays == {[year |-> 2020, month |-> 1, day |-> 1], ClockDay}

-----------------------------------------------------------------------------
(* Bounds of the model *)

MaxDrugs == 2
MaxPubmed == 2
MaxTrials == 1
MaxReuseLen == 1

-----------------------------------------------------------------------------
(* Text: Python str as a sequence of code points *)

None == <<-1>>
Absent == <<-2>>
\* float('nan'), the missing value of pandas
NaN == <<-3>>
NoType == "None"

\* "A1"
TxtA1 == <<65, 49>>
\* "A2"
TxtA2 == <<65, 50>>
\* "A3"
TxtA3 == <<65, 51>>
\* "Epinephrine"
TxtEpinephrine == <<69, 112, 105, 110, 101, 112, 104, 114, 105, 110, 101>>
\* "amphetamine"
TxtAmphetamine == <<97, 109, 112, 104, 101, 116, 97, 109, 105, 110, 101>>
\* "EPINEPHRINE"
TxtEPINEPHRINE == <<69, 80, 73, 78, 69, 80, 72, 82, 73, 78, 69>>
\* "epinephrine"
TxtEpinephrineLower == <<101, 112, 105, 110, 101, 112, 104, 114, 105, 110, 101>>
\* "1"
TxtId1 == <<49>>
\* "2"
TxtId2 == <<50>>
\* "3"
TxtId3 == <<51>>
\* "4"
TxtId4 == <<52>>
\* "5"
TxtId5 == <<53>>
\* "6"
TxtId6 == <<54>>
\* "Epinephrine use in anaphylaxis"
TxtTitleAnaphylaxis == <<69, 112, 105, 110, 101, 112, 104, 114, 105, 110, 101, 32, 117, 115, 101, 32, 105, 110, 32, 97, 110, 97, 112, 104, 121, 108, 97, 120, 105, 115>>
\* "Dextroamphetamine and epinephrine"
TxtTitleDextro == <<68, 101, 120, 116, 114, 111, 97, 109, 112, 104, 101, 116, 97, 109, 105, 110, 101, 32, 97, 110, 100, 32, 101, 112, 105, 110, 101, 112, 104, 114, 105, 110, 101>>
\* "Epinephrine use in asthma"
TxtTitleAsthma == <<69, 112, 105, 110, 101, 112, 104, 114, 105, 110, 101, 32, 117, 115, 101, 32, 105, 110, 32, 97, 115, 116, 104, 109, 97>>
\* "Safety of epinephrine"
TxtTitleSafety == <<83, 97, 102, 101, 116, 121, 32, 111, 102, 32, 101, 112, 105, 110, 101, 112, 104, 114, 105, 110, 101>>
\* "Amphetamine abuse"
TxtTitleAbuse == <<65, 109, 112, 104, 101, 116, 97, 109, 105, 110, 101, 32, 97, 98, 117, 115, 101>>
\* "Use of amphetamine"
TxtTitleUse == <<85, 115, 101, 32, 111, 102, 32, 97, 109, 112, 104, 101, 116, 97, 109, 105, 110, 101>>
\* "Trial of epinephrine"
TxtTitleTrial == <<84, 114, 105, 97, 108, 32, 111, 102, 32, 101, 112, 105, 110, 101, 112, 104, 114, 105, 110, 101>>
\* "2020-01-01"
TxtDate2020 == <<50, 48, 50, 48, 45, 48, 49, 45, 48, 49>>
\* "2019-05-05"
TxtDate2019 == <<50, 48, 49, 57, 45, 48, 53, 45, 48, 53>>
\* "2018-03-03"
TxtDate2018 == <<50, 48, 49, 56, 45, 48, 51, 45, 48, 51>>
\* "2021-06-06"
TxtDate2021 == <<50, 48, 50, 49, 45, 48, 54, 45, 48, 54>>
\* "NEJM"
TxtNEJM == <<78, 69, 74, 77>>
\* "nejm"
TxtNEJMLower == <<110, 101, 106, 109>>
\* "The journal of maternal-fetal & neonatal medicine"
TxtJournalMaternal == <<84, 104, 101, 32, 106, 111, 117, 114, 110, 97, 108, 32, 111, 102, 32, 109, 97, 116, 101, 114, 110, 97, 108, 45, 102, 101, 116, 97, 108, 32, 38, 32, 110, 101, 111, 110, 97, 116, 97, 108, 32, 109, 101, 100, 105, 99, 105, 110, 101>>
\* "The journal of maternity care"
TxtJournalMaternity == <<84, 104, 101, 32, 106, 111, 117, 114, 110, 97, 108, 32, 111, 102, 32, 109, 97, 116, 101, 114, 110, 105, 116, 121, 32, 99, 97, 114, 101>>
\* ""
TxtBlank == <<>>
\* 21 spaces
TxtSpaces21 == <<32, 32, 32, 32, 32, 32, 32, 32, 32, 32, 32, 32, 32, 32, 32, 32, 32, 32, 32, 32, 32>>
\* 20 spaces
TxtSpaces20 == <<32, 32, 32, 32, 32, 32, 32, 32, 32, 32, 32, 32, 32, 32, 32, 32, 32, 32, 32, 32>>
\* "No journals found"
TxtNoJournalsFound == <<78, 111, 32, 106, 111, 117, 114, 110, 97, 108, 115, 32, 102, 111, 117, 110, 100>>
\* "Error processing journals"
TxtErrorProcessing == <<69, 114, 114, 111, 114, 32, 112, 114, 111, 99, 101, 115, 115, 105, 110, 103, 32, 106, 111, 117, 114, 110, 97, 108, 115>>

\* str.lower() on one code point (the model's texts are ASCII)
LowerChar(c) == IF c >= 65 /\ c <= 90 THEN c + 32 ELSE c

\* s.lower()
Lower(s) == [i \in 1..Len(s) |-> LowerChar(s[i])]

\* s[:n]
Slice(s, n) == SubSeq(s, 1, IF Len(s) < n THEN Len(s) ELSE n)

\* needle in hay
Contains(needle, hay) ==
    \E i \in 0..(Len(hay) - Len(needle)) :
        SubSeq(hay, i + 1, i + Len(needle)) = needle

\* the characters str.strip() removes: those str.isspace() holds of
Whitespace ==
    (9..13) \cup (28..32) \cup {133, 160, 5760} \cup (8192..8202)
        \cup {8232, 8233, 8239, 8287, 12288}

\* bool(s.strip())
NonBlank(s) == \E i \in 1..Len(s) : s[i] \notin Whitespace

\* Python's a < b on str
RECURSIVE TextLess(_, _)
TextLess(a, b) ==
    IF b = <<>> THEN FALSE
    ELSE IF a = <<>> THEN TRUE
    ELSE IF Head(a) # Head(b) THEN Head(a) < Head(b)
    ELSE TextLess(Tail(a), Tail(b))

\* bool(x) of a str or None
Truthy(x) == x # None /\ x # Absent /\ x # <<>>

\* d.get(k)
Get(x) == IF x = Absent THEN None ELSE x

Range(s) == {s[i] : i \in 1..Len(s)}

\* the sequences without repetition of at most n elements of S
RECURSIVE InjSeqs(_, _)
InjSeqs(S, n) ==
    IF n = 0 THEN {<<>>}
    ELSE LET shorter == InjSeqs(S, n - 1)
         IN  shorter \cup
             {Append(p[1], p[2]) :
                 p \in {q \in shorter \X S : q[2] \notin Range(q[1])}}

\* every order a Python set of str can be iterated in
Orders(S) == {s \in InjSeqs(S, Cardinality(S)) : Len(s) = Cardinality(S)}

-----------------------------------------------------------------------------
(* Entities (models/schemas.py) and the inputs of the model *)

\* Mutant of Relationship: the label of the specification
RelationshipMentionedIn == "mentioned_in"

TruncLen == 20
Relationship == "Référencé dans"

Drug(atccode, name) == [atccode |-> atccode, name |-> name]

Publication(id, title, date, journal_name, source_type) ==
    [id |-> id, title |-> title, date |-> date,
     journal_name |-> journal_name, source_type |-> source_type]

Journal(name) == [name |-> name]

\* what pydantic raises for a field that is not a str (None)
ValidationError == [raised |-> "ValidationError"]

\* Drug(atccode=..., name=...): both fields are declared str, nothing more
DrugInit(atccode, name) ==
    IF None \in {atccode, name} THEN ValidationError ELSE Drug(atccode, name)

\* Publication(id=..., title=..., date=..., journal_name=..., source_type=...)
PublicationInit(id, title, date, journal_name, source_type) ==
    IF None \in {id, title, date, journal_name}
        \/ source_type \notin {"pubmed", "clinical_trial"}
    THEN ValidationError
    ELSE Publication(id, title, date, journal_name, source_type)

\* Journal(name=...)
JournalInit(name) == IF name = None THEN ValidationError ELSE Journal(name)

\* isinstance(x, Drug), isinstance(x, Publication), isinstance(x, Journal)
IsDrug(x) == DOMAIN x = {"atccode", "name"}
IsPublication(x) ==
    DOMAIN x = {"id", "title", "date", "journal_name", "source_type"}
IsJournal(x) == DOMAIN x = {"name"}

\* hash(x): equal for equal values
PyHash(x) == [hash_of |-> x]

\* Drug.__hash__
DrugHash(self) == PyHash(self.atccode)

\* Mutant of DrugEq: drugs are compared by name
DrugEqByName(self, other) ==
    IF ~IsDrug(other) THEN FALSE ELSE self.name = other.name

\* Drug.__eq__
DrugEq(self, other) ==
    IF ~IsDrug(other) THEN FALSE ELSE self.atccode = other.atccode

\* Publication.__hash__
PublicationHash(self) == PyHash(<<self.id, self.source_type>>)

\* Publication.__eq__
PublicationEq(self, other) ==
    IF ~IsPublication(other) THEN FALSE
    ELSE /\ self.id = other.id
         /\ self.source_type = other.source_type
         /\ self.date = other.date
         /\ self.title = other.title
         /\ self.journal_name = other.journal_name

\* Journal.__hash__
JournalHash(self) == PyHash(self.name)

\* Journal.__eq__
JournalEq(self, other) ==
    IF ~IsJournal(other) THEN FALSE ELSE self.name = other.name

\* a == b and hash(a) for entities: the methods of the class of a
EntityEq(a, b) ==
    IF IsDrug(a) THEN DrugEq(a, b)
    ELSE IF IsPublication(a) THEN PublicationEq(a, b)
    ELSE JournalEq(a, b)

EntityHash(a) ==
    IF IsDrug(a) THEN DrugHash(a)
    ELSE IF IsPublication(a) THEN PublicationHash(a)
    ELSE JournalHash(a)

\* the third name differs from the first in case only; the fourth drug has
\* the atccode of the first and the name of the second (drugs.csv is not
\* deduplicated by atccode)
DrugPool ==
    { Drug(TxtA1, TxtEpinephrine),
      Drug(TxtA2, TxtAmphetamine),
      Drug(TxtA3, TxtEPINEPHRINE),
      Drug(TxtA1, TxtAmphetamine) }

\* distinct id each.  The first and third titles share their first 20
\* characters, the journals of the second and third share theirs, the
\* second title holds two drug names, the fifth has no journal and the
\* journal of the last is white space, longer than a node key.
PubmedPool ==
    { Publication(TxtId1, TxtTitleAnaphylaxis, TxtDate2020, TxtNEJM, "pubmed"),
      Publication(TxtId2, TxtTitleDextro, TxtDate2020, TxtJournalMaternal, "pubmed"),
      Publication(TxtId3, TxtTitleAsthma, TxtDate2019, TxtJournalMaternity, "pubmed"),
      Publication(TxtId4, TxtTitleSafety, TxtDate2019, TxtNEJM, "pubmed"),
      Publication(TxtId5, TxtTitleAbuse, TxtDate2021, TxtBlank, "pubmed"),
      Publication(TxtId6, TxtTitleUse, TxtDate2021, TxtSpaces21, "pubmed") }

\* a trial may carry the id of a pubmed publication
TrialPool ==
    { Publication(TxtId1, TxtTitleTrial, TxtDate2018, TxtNEJM, "clinical_trial") }

\* drug_name arguments of find_journals_with_most_mentions_of_drug
DrugNameArgs == {TxtEpinephrineLower, TxtEpinephrine, TxtEPINEPHRINE, TxtAmphetamine}

-----------------------------------------------------------------------------
(* networkx.DiGraph: nodes in insertion order with their attribute         *)
(* dictionaries, edges in insertion order with theirs                      *)

EmptyGraph == [nodes |-> <<>>, edges |-> <<>>]

\* the attribute dictionary of a node added without attributes
NoAttrs(key) ==
    [key |-> key, type |-> NoType, atccode |-> Absent, id |-> Absent,
     title |-> Absent, date |-> Absent, journal_name |-> Absent, name |-> Absent]

HasNode(g, key) == \E i \in 1..Len(g.nodes) : g.nodes[i].key = key

NodeOf(g, key) ==
    LET i == CHOOSE i \in 1..Len(g.nodes) : g.nodes[i].key = key
    IN  g.nodes[i]

NodeKeys(g) == {g.nodes[i].key : i \in 1..Len(g.nodes)}

\* dict.update: the attributes given replace the old ones, the others stay
Merge(old, new) ==
    [key |-> old.key,
     type |-> IF new.type = NoType THEN old.type ELSE new.type,
     atccode |-> IF new.atccode = Absent THEN old.atccode ELSE new.atccode,
     id |-> IF new.id = Absent THEN old.id ELSE new.id,
     title |-> IF new.title = Absent THEN old.title ELSE new.title,
     date |-> IF new.date = Absent THEN old.date ELSE new.date,
     journal_name |-> IF new.journal_name = Absent THEN old.journal_name
                      ELSE new.journal_name,
     name |-> IF new.name = Absent THEN old.name ELSE new.name]

\* DiGraph.add_node(key, **attrs): a new node, or an update of the node's
\* attributes when the key is already there
AddNode(g, attrs) ==
    IF HasNode(g, attrs.key)
    THEN [g EXCEPT !.nodes =
            [i \in 1..Len(g.nodes) |->
                IF g.nodes[i].key = attrs.key
                THEN Merge(g.nodes[i], attrs) ELSE g.nodes[i]]]
    ELSE [g EXCEPT !.nodes = Append(g.nodes, attrs)]

HasEdge(g, u, v) ==
    \E i \in 1..Len(g.edges) : g.edges[i].source = u /\ g.edges[i].target = v

\* DiGraph.add_edge(u, v, relationship=, date_mention=): adds the nodes that
\* are missing (without attributes) and sets the edge's attributes
AddEdge(g, u, v, relationship, date_mention) ==
    LET gu == IF HasNode(g, u) THEN g ELSE AddNode(g, NoAttrs(u))
        gv == IF HasNode(gu, v) THEN gu ELSE AddNode(gu, NoAttrs(v))
        e == [source |-> u, target |-> v,
              relationship |-> relationship, date_mention |-> date_mention]
    IN  IF HasEdge(gv, u, v)
        THEN [gv EXCEPT !.edges =
                [i \in 1..Len(gv.edges) |->
                    IF gv.edges[i].source = u /\ gv.edges[i].target = v
                    THEN e ELSE gv.edges[i]]]
        ELSE [gv EXCEPT !.edges = Append(gv.edges, e)]

\* the edges joined to a graph as sets
EdgeSet(g) == Range(g.edges)

RECURSIVE EdgesFrom(_, _, _)
EdgesFrom(g, u, i) ==
    IF i > Len(g.edges) THEN <<>>
    ELSE (IF g.edges[i].source = u THEN <<g.edges[i]>> ELSE <<>>)
             \o EdgesFrom(g, u, i + 1)

\* graph.edges(data=True): by source node in node order, then by insertion
RECURSIVE EdgesInOrder(_, _)
EdgesInOrder(g, n) ==
    IF n > Len(g.nodes) THEN <<>>
    ELSE EdgesFrom(g, g.nodes[n].key, 1) \o EdgesInOrder(g, n + 1)

-----------------------------------------------------------------------------
(* DrugMentionGraphTransformer (pipeline/transformers.py) *)

\* the node key of a drug: drug.name.lower()
DrugKey(drug) == Lower(drug.name)

\* Mutant of PubKey: the title is not truncated
PubKeyNoTruncation(pub) == Lower(pub.title)

\* the node key of a publication: pub.title[:20].lower()
PubKey(pub) == Lower(Slice(pub.title, TruncLen))

\* the node key of a journal: name[:20]
JournalKey(name) == Slice(name, TruncLen)

\* _extract_journals: the set of the non-blank journal names
ExtractJournals(publications) ==
    {publications[i].journal_name : i \in
        {j \in 1..Len(publications) :
            Truthy(publications[j].journal_name)
            /\ NonBlank(publications[j].journal_name)}}

DrugNode(drug) ==
    [NoAttrs(DrugKey(drug)) EXCEPT !.type = "drug", !.atccode = drug.atccode]

PubNode(pub) ==
    [NoAttrs(PubKey(pub)) EXCEPT
        !.type = pub.source_type, !.id = pub.id, !.title = pub.title,
        !.date = pub.date, !.journal_name = pub.journal_name]

JournalNode(name) ==
    [NoAttrs(JournalKey(name)) EXCEPT !.type = "journal", !.name = name]

RECURSIVE AddDrugNodes(_, _, _)
AddDrugNodes(g, ds, i) ==
    IF i > Len(ds) THEN g
    ELSE AddDrugNodes(AddNode(g, DrugNode(ds[i])), ds, i + 1)

RECURSIVE AddPubNodes(_, _, _)
AddPubNodes(g, ps, i) ==
    IF i > Len(ps) THEN g
    ELSE AddPubNodes(AddNode(g, PubNode(ps[i])), ps, i + 1)

RECURSIVE AddJournalNodes(_, _, _)
AddJournalNodes(g, js, i) ==
    IF i > Len(js) THEN g
    ELSE AddJournalNodes(AddNode(g, JournalNode(js[i])), js, i + 1)

\* _add_nodes_to_graph: the drugs, then the publications, then the journals
AddNodesToGraph(g, ds, ps, js) ==
    AddJournalNodes(AddPubNodes(AddDrugNodes(g, ds, 1), ps, 1), js, 1)

\* Mutant of Mentions: the name and the title are compared as written
MentionsCaseSensitive(drug, pub) == Contains(drug.name, pub.title)

\* the title test of _connect_drugs_to_publications
Mentions(drug, pub) == Contains(Lower(drug.name), Lower(pub.title))

\* Mutant of ConnectStep: the connections are tracked by journal alone
ConnectStepPerJournal(st, drug, pub) ==
    IF ~Contains(Lower(drug.name), Lower(pub.title)) THEN st
    ELSE
        LET drug_id == Lower(drug.name)
            pub_id == Lower(Slice(pub.title, 20))
            g1 == AddEdge(st.g, drug_id, pub_id, "Référencé dans", pub.date)
            journal_id == Slice(pub.journal_name, 20)
        IN  IF journal_id \notin st.conn
            THEN [g |-> AddEdge(g1, drug_id, journal_id, "Référencé dans", pub.date),
                  conn |-> st.conn \cup {journal_id}]
            ELSE [g |-> g1, conn |-> st.conn]

\* Mutant of ConnectStep: the connections are not tracked, every match
\* sets the drug -> journal edge again
ConnectStepNoTracking(st, drug, pub) ==
    IF ~Contains(Lower(drug.name), Lower(pub.title)) THEN st
    ELSE
        LET drug_id == Lower(drug.name)
            pub_id == Lower(Slice(pub.title, 20))
            g1 == AddEdge(st.g, drug_id, pub_id, "Référencé dans", pub.date)
            journal_id == Slice(pub.journal_name, 20)
        IN  [g |-> AddEdge(g1, drug_id, journal_id, "Référencé dans", pub.date),
             conn |-> st.conn]

\* one (drug, publication) step of the nested loops; st holds the graph
\* and drug_journal_connections
ConnectStep(st, drug, pub) ==
    IF ~Mentions(drug, pub) THEN st
    ELSE
        LET drug_id == DrugKey(drug)
            pub_id == PubKey(pub)
            g1 == AddEdge(st.g, drug_id, pub_id, Relationship, pub.date)
            journal_id == Slice(pub.journal_name, TruncLen)
            connection_key == <<drug_id, journal_id>>
        IN  IF connection_key \notin st.conn
            THEN [g |-> AddEdge(g1, drug_id, journal_id, Relationship, pub.date),
                  conn |-> st.conn \cup {connection_key}]
            ELSE [g |-> g1, conn |-> st.conn]

RECURSIVE ConnectLoop(_, _, _, _, _)
ConnectLoop(st, ds, ps, i, j) ==
    IF i > Len(ds) THEN st
    ELSE IF j > Len(ps) THEN ConnectLoop(st, ds, ps, i + 1, 1)
    ELSE ConnectLoop(ConnectStep(st, ds[i], ps[j]), ds, ps, i, j + 1)

\* _connect_drugs_to_publications
ConnectDrugsToPublications(g, ds, ps) ==
    ConnectLoop([g |-> g, conn |-> {}], ds, ps, 1, 1).g

\* build_graph on a transformer whose self.graph is g; js is the order in
\* which the set of journal names is iterated
BuildGraph(g, ds, pm, ct, js) ==
    LET all_publications == pm \o ct
    IN  ConnectDrugsToPublications(
            AddNodesToGraph(g, ds, all_publications, js), ds, all_publications)

-----------------------------------------------------------------------------
(* save_graph_to_json (utils/helpers.py) *)

PublicationTypes == {"pubmed", "clinical_trial"}

\* Drug(atccode=attrs.get("atccode", ""), name=node).model_dump()
DrugRecord(node) ==
    [atccode |-> IF node.atccode = Absent THEN <<>> ELSE node.atccode,
     name |-> node.key]

\* Publication(id=attrs.get("id"), ...).model_dump()
PublicationRecord(node) ==
    [id |-> Get(node.id), title |-> Get(node.title), date |-> Get(node.date),
     journal_name |-> Get(node.journal_name), source_type |-> node.type]

\* Journal(name=attrs.get("name")).model_dump()
JournalRecord(node) == [name |-> Get(node.name)]

\* pydantic rejects None for a str field
RecordRaises(node) ==
    \/ node.type = "drug" /\ node.atccode = None
    \/ node.type \in PublicationTypes
        /\ None \in {Get(node.id), Get(node.title), Get(node.date),
                     Get(node.journal_name)}
    \/ node.type = "journal" /\ Get(node.name) = None

SaveRaises(g) == \E i \in 1..Len(g.nodes) : RecordRaises(g.nodes[i])

\* the records of the nodes of one type, in node order
RECURSIVE NodeRecords(_, _, _)
NodeRecords(g, type, i) ==
    IF i > Len(g.nodes) THEN <<>>
    ELSE (IF g.nodes[i].type # type THEN <<>>
          ELSE IF type = "drug" THEN <<DrugRecord(g.nodes[i])>>
          ELSE IF type = "journal" THEN <<JournalRecord(g.nodes[i])>>
          ELSE <<PublicationRecord(g.nodes[i])>>)
         \o NodeRecords(g, type, i + 1)

\* the relationship record of one edge
RelationshipRecord(g, e) ==
    LET source_type == NodeOf(g, e.source).type
        target_type == NodeOf(g, e.target).type
        source_id == IF source_type = "drug"
                     THEN Get(NodeOf(g, e.source).atccode)
                     ELSE e.source
        target_id == IF target_type \in PublicationTypes
                     THEN Get(NodeOf(g, e.target).id)
                     ELSE IF target_type = "journal"
                     THEN Get(NodeOf(g, e.target).name)
                     ELSE e.target
    IN  [source |-> [id |-> source_id, type |-> source_type],
         target |-> [id |-> target_id, type |-> target_type],
         type |-> e.relationship,
         date_mention |-> e.date_mention]

Relationships(g) ==
    LET es == EdgesInOrder(g, 1)
    IN  [i \in 1..Len(es) |-> RelationshipRecord(g, es[i])]

\* the keys of graph_data and of graph_data["publications"]
TopLevelKeys == {"drugs", "publications", "journals", "relationships"}
PublicationKeys == {"pubmed", "clinical_trials"}

\* graph_data of save_graph_to_json; `keys` lists the keys a dictionary has
SaveGraphToJson(g) ==
    [keys |-> TopLevelKeys,
     drugs |-> NodeRecords(g, "drug", 1),
     publications |->
        [keys |-> PublicationKeys,
         pubmed |-> NodeRecords(g, "pubmed", 1),
         clinical_trials |-> NodeRecords(g, "clinical_trial", 1)],
     journals |-> NodeRecords(g, "journal", 1),
     relationships |-> Relationships(g)]

-----------------------------------------------------------------------------
(* load_graph_from_json (utils/helpers.py) *)

\* graph_data.get("drugs", []), .get("journals", []), .get("relationships", [])
DocDrugs(d) == IF "drugs" \in d.keys THEN d.drugs ELSE <<>>
DocJournals(d) == IF "journals" \in d.keys THEN d.journals ELSE <<>>
DocRelationships(d) ==
    IF "relationships" \in d.keys THEN d.relationships ELSE <<>>

\* graph_data.get("publications", {}).get("pubmed", [])
DocPubmed(d) ==
    IF "publications" \in d.keys /\ "pubmed" \in d.publications.keys
    THEN d.publications.pubmed ELSE <<>>

\* graph_data.get("publications", {}).get("clinical_trials", [])
DocClinicalTrials(d) ==
    IF "publications" \in d.keys /\ "clinical_trials" \in d.publications.keys
    THEN d.publications.clinical_trials ELSE <<>>

\* pubmed.get("title", "")
TitleOf(r) == IF r.title = Absent THEN <<>> ELSE r.title

\* drug.get("name").lower(), title[:20] and journal_name[:20] fail on None
LoadRaises(d) ==
    \/ \E i \in 1..Len(DocDrugs(d)) : Get(DocDrugs(d)[i].name) = None
    \/ \E i \in 1..Len(DocPubmed(d)) : TitleOf(DocPubmed(d)[i]) = None
    \/ \E i \in 1..Len(DocClinicalTrials(d)) :
            TitleOf(DocClinicalTrials(d)[i]) = None
    \/ \E i \in 1..Len(DocJournals(d)) : Get(DocJournals(d)[i].name) = None

LoadedDrugNode(r) ==
    [NoAttrs(Lower(r.name)) EXCEPT !.type = "drug", !.atccode = Get(r.atccode)]

LoadedPubNode(r, type) ==
    [NoAttrs(Lower(Slice(TitleOf(r), TruncLen))) EXCEPT
        !.type = type, !.id = Get(r.id), !.title = TitleOf(r),
        !.date = Get(r.date), !.journal_name = Get(r.journal_name)]

\* Mutant of LoadedJournalNode: the key of a journal is lower-cased
LoadedJournalNodeLowered(r) ==
    [NoAttrs(Lower(Slice(r.name, 20))) EXCEPT !.type = "journal", !.name = r.name]

LoadedJournalNode(r) ==
    [NoAttrs(Slice(r.name, TruncLen)) EXCEPT !.type = "journal", !.name = r.name]

RECURSIVE LoadDrugs(_, _, _)
LoadDrugs(g, rs, i) ==
    IF i > Len(rs) THEN g
    ELSE LoadDrugs(AddNode(g, LoadedDrugNode(rs[i])), rs, i + 1)

RECURSIVE LoadPubs(_, _, _, _)
LoadPubs(g, rs, type, i) ==
    IF i > Len(rs) THEN g
    ELSE LoadPubs(AddNode(g, LoadedPubNode(rs[i], type)), rs, type, i + 1)

RECURSIVE LoadJournals(_, _, _)
LoadJournals(g, rs, i) ==
    IF i > Len(rs) THEN g
    ELSE LoadJournals(AddNode(g, LoadedJournalNode(rs[i])), rs, i + 1)

\* the first node, in node order, of the given type whose attribute equals
\* the id; None when there is none
RECURSIVE FindDrugNode(_, _, _)
FindDrugNode(g, atccode, i) ==
    IF i > Len(g.nodes) THEN None
    ELSE IF g.nodes[i].type = "drug" /\ Get(g.nodes[i].atccode) = atccode
    THEN g.nodes[i].key
    ELSE FindDrugNode(g, atccode, i + 1)

RECURSIVE FindPubNode(_, _, _, _)
FindPubNode(g, type, id, i) ==
    IF i > Len(g.nodes) THEN None
    ELSE IF g.nodes[i].type = type /\ Get(g.nodes[i].id) = id
    THEN g.nodes[i].key
    ELSE FindPubNode(g, type, id, i + 1)

\* the node a relationship's source is mapped to
SourceNode(g, rel) ==
    IF rel.source.type = "drug" THEN FindDrugNode(g, Get(rel.source.id), 1)
    ELSE IF Truthy(rel.source.id) THEN Lower(Slice(rel.source.id, TruncLen))
    ELSE None

\* the node a relationship's target is mapped to
TargetNode(g, rel) ==
    IF rel.target.type \in PublicationTypes
    THEN FindPubNode(g, rel.target.type, Get(rel.target.id), 1)
    ELSE IF rel.target.type = "journal"
    THEN (IF Truthy(rel.target.id) THEN Slice(rel.target.id, TruncLen) ELSE None)
    ELSE Get(rel.target.id)

\* one relationship: an edge when both nodes exist, nothing otherwise
LoadRelationship(g, rel) ==
    LET source_node == SourceNode(g, rel)
        target_node == TargetNode(g, rel)
    IN  IF /\ Truthy(source_node)
           /\ Truthy(target_node)
           /\ HasNode(g, source_node)
           /\ HasNode(g, target_node)
        THEN AddEdge(g, source_node, target_node, rel.type,
                     Get(rel.date_mention))
        ELSE g

RECURSIVE LoadRelationships(_, _, _)
LoadRelationships(g, rels, i) ==
    IF i > Len(rels) THEN g
    ELSE LoadRelationships(LoadRelationship(g, rels[i]), rels, i + 1)

\* the graph load_graph_from_json returns for a document it does not fail on
LoadGraphFromJson(d) ==
    LoadRelationships(
        LoadJournals(
            LoadPubs(
                LoadPubs(LoadDrugs(EmptyGraph, DocDrugs(d), 1),
                         DocPubmed(d), "pubmed", 1),
                DocClinicalTrials(d), "clinical_trial", 1),
            DocJournals(d), 1),
        DocRelationships(d), 1)

-----------------------------------------------------------------------------
(* The analytics queries (utils/helpers.py) *)

\* Mutant of NoJournalsFound: an empty list of names
NoJournalsFoundEmptyList == <<<<>>, 0>>

NoJournalsFound == <<<<TxtNoJournalsFound>>, 0>>
\* mutant: a failure is answered with the sentinel of an empty answer
ErrorProcessingAsNotFound == NoJournalsFound
ErrorProcessingJournals == <<<<TxtErrorProcessing>>, 0>>

\* list.sort() on str, by insertion
RECURSIVE InsertSorted(_, _)
InsertSorted(sorted, x) ==
    IF sorted = <<>> THEN <<x>>
    ELSE IF TextLess(x, Head(sorted)) THEN <<x>> \o sorted
    ELSE <<Head(sorted)>> \o InsertSorted(Tail(sorted), x)

\* Mutant of Sort: the list is returned in the dict's order
SortLeftUnsorted(s) == s

RECURSIVE Sort(_)
Sort(s) == IF s = <<>> THEN <<>> ELSE InsertSorted(Sort(Tail(s)), Head(s))

\* a dict as the sequence of its (key, value) items, in insertion order
DictHas(d, k) == \E i \in 1..Len(d) : d[i].k = k
DictGet(d, k) == d[CHOOSE i \in 1..Len(d) : d[i].k = k].v
DictSet(d, k, v) ==
    IF DictHas(d, k)
    THEN [i \in 1..Len(d) |-> IF d[i].k = k THEN [k |-> k, v |-> v] ELSE d[i]]
    ELSE Append(d, [k |-> k, v |-> v])

RECURSIVE Max(_)
Max(S) ==
    LET x == CHOOSE x \in S : TRUE
    IN  IF S = {x} THEN x
        ELSE LET m == Max(S \ {x}) IN IF x > m THEN x ELSE m

\* the keys of the items whose value is x, in the dict's order
RECURSIVE KeysWith(_, _, _)
KeysWith(d, x, i) ==
    IF i > Len(d) THEN <<>>
    ELSE (IF d[i].v = x THEN <<d[i].k>> ELSE <<>>) \o KeysWith(d, x, i + 1)

\* len(drugs) for each journal of journal_drug_counts
Sizes(d) == [i \in 1..Len(d) |-> [k |-> d[i].k, v |-> Cardinality(d[i].v)]]

\* the edge loop of find_journal_with_most_drugs: journal_drug_counts
RECURSIVE JournalDrugCounts(_, _, _, _)
JournalDrugCounts(g, es, i, counts) ==
    IF i > Len(es) THEN counts
    ELSE
        LET source == NodeOf(g, es[i].source)
            target == NodeOf(g, es[i].target)
        IN  IF source.type = "drug" /\ target.type = "journal"
            THEN LET journal_name == Get(target.name)
                     old == IF DictHas(counts, journal_name)
                            THEN DictGet(counts, journal_name) ELSE {}
                 IN  JournalDrugCounts(g, es, i + 1,
                        DictSet(counts, journal_name,
                                old \cup {Get(source.atccode)}))
            ELSE JournalDrugCounts(g, es, i + 1, counts)

\* find_journal_with_most_drugs on a loaded graph
MostDrugs(g) ==
    LET journal_drug_counts == JournalDrugCounts(g, EdgesInOrder(g, 1), 1, <<>>)
    IN  IF journal_drug_counts = <<>> THEN NoJournalsFound
        ELSE
            LET max_drug_count ==
                    Max({Cardinality(journal_drug_counts[i].v) :
                            i \in 1..Len(journal_drug_counts)})
                top_journals ==
                    KeysWith(Sizes(journal_drug_counts), max_drug_count, 1)
            IN  <<Sort(top_journals), max_drug_count>>

\* Mutant of FindJournalWithMostDrugs: the drug -> journal relationships of
\* the document are counted for each journal, not the distinct atccodes
RECURSIVE RelationshipCounts(_, _, _)
RelationshipCounts(rels, i, counts) ==
    IF i > Len(rels) THEN counts
    ELSE IF rels[i].source.type = "drug" /\ rels[i].target.type = "journal"
    THEN LET journal_name == rels[i].target.id
             old == IF DictHas(counts, journal_name)
                    THEN DictGet(counts, journal_name) ELSE {}
         IN  RelationshipCounts(rels, i + 1,
                                DictSet(counts, journal_name, old \cup {i}))
    ELSE RelationshipCounts(rels, i + 1, counts)

FindJournalCountingRelationships(d) ==
    IF d = [missing |-> TRUE] \/ LoadRaises(d) THEN ErrorProcessingJournals
    ELSE LET journal_drug_counts == RelationshipCounts(d.relationships, 1, <<>>)
         IN  IF journal_drug_counts = <<>> THEN NoJournalsFound
             ELSE
                 LET max_drug_count ==
                         Max({Cardinality(journal_drug_counts[i].v) :
                                 i \in 1..Len(journal_drug_counts)})
                     top_journals ==
                         KeysWith(Sizes(journal_drug_counts), max_drug_count, 1)
                 IN  <<Sort(top_journals), max_drug_count>>

\* find_journal_with_most_drugs(graph_path)
FindJournalWithMostDrugs(d) ==
    IF d = [missing |-> TRUE] \/ LoadRaises(d) THEN ErrorProcessingJournals
    ELSE MostDrugs(LoadGraphFromJson(d))

\* the first count a journal gets in journal_mentions
FirstMention == 1

\* the out-edge loop of find_journals_with_most_mentions_of_drug for one
\* drug node: journal_mentions
RECURSIVE JournalMentions(_, _, _, _)
JournalMentions(g, es, i, mentions) ==
    IF i > Len(es) THEN mentions
    ELSE
        LET target == NodeOf(g, es[i].target)
        IN  IF target.type = "journal"
            THEN LET journal_name == Get(target.name)
                     first == IF DictHas(mentions, journal_name) THEN mentions
                              ELSE DictSet(mentions, journal_name, FirstMention)
                 IN  JournalMentions(g, es, i + 1,
                        DictSet(first, journal_name,
                                DictGet(first, journal_name) + 1))
            ELSE JournalMentions(g, es, i + 1, mentions)

\* the comparison that selects the drug node(s)
IsDrugNamed(node, drug_name) == node.type = "drug" /\ node.key = drug_name

\* find_journals_with_most_mentions_of_drug on a loaded graph; a node key
\* is unique, so drug_nodes holds at most one node
MostMentions(g, drug_name) ==
    LET drug_nodes == {n \in Range(g.nodes) : IsDrugNamed(n, drug_name)}
    IN  IF drug_nodes = {} THEN NoJournalsFound
        ELSE
            LET drug_node == CHOOSE n \in drug_nodes : TRUE
                journal_mentions ==
                    JournalMentions(g, EdgesFrom(g, drug_node.key, 1), 1, <<>>)
            IN  IF journal_mentions = <<>> THEN NoJournalsFound
                ELSE
                    LET max_mentions ==
                            Max({journal_mentions[i].v :
                                    i \in 1..Len(journal_mentions)})
                        top_journals ==
                            KeysWith(journal_mentions, max_mentions, 1)
                    IN  <<Sort(top_journals), max_mentions>>

\* find_journals_with_most_mentions_of_drug(graph_path, drug_name)
FindJournalsWithMostMentionsOfDrug(d, drug_name) ==
    IF d = [missing |-> TRUE] \/ LoadRaises(d) THEN ErrorProcessingJournals
    ELSE MostMentions(LoadGraphFromJson(d), drug_name)

-----------------------------------------------------------------------------
(* The run *)

MaxBuilds == 2

NoDoc == [missing |-> TRUE]
NoGraph == [missing |-> TRUE]
NoQuery == [name |-> "none", drug_name |-> None]
NoResult == <<>>
NoFiles == [missing |-> TRUE]

Init ==
    /\ drugs = <<>>
    /\ pubmed = <<>>
    /\ trials = <<>>
    /\ graph = EmptyGraph
    /\ builds = 0
    /\ doc = NoDoc
    /\ loaded = NoGraph
    /\ query = NoQuery
    /\ result = NoResult
    /\ pc = "start"
    /\ files = NoFiles
    /\ pubmed_csv_list = <<>>
    /\ pubmed_json_list = <<>>
    /\ gml = NoDoc
    /\ today = ClockDay

\* build_drug_mention_graph (main.py): a new transformer, one build_graph
BuildDrugMentionGraph ==
    /\ pc = "start"
    /\ \E ds \in InjSeqs(DrugPool, MaxDrugs),
          pm \in InjSeqs(PubmedPool, MaxPubmed),
          ct \in InjSeqs(TrialPool, MaxTrials) :
          \E js \in Orders(ExtractJournals(pm \o ct)) :
            /\ drugs' = ds
            /\ pubmed' = pm
            /\ trials' = ct
            /\ graph' = BuildGraph(EmptyGraph, ds, pm, ct, js)
    /\ builds' = 1
    /\ pc' = "built"
    /\ UNCHANGED <<doc, loaded, query, result>>
    /\ UNCHANGED <<today, files, pubmed_csv_list, pubmed_json_list, gml>>

\* transformer.build_graph(...) on the transformer as it is: self.graph is
\* created in __init__ only, and build_graph adds to it
TransformerBuildGraph ==
    /\ pc \in {"start", "built"}
    /\ builds < MaxBuilds
    /\ \E ds \in InjSeqs(DrugPool, MaxReuseLen),
          pm \in InjSeqs(PubmedPool, MaxReuseLen),
          ct \in InjSeqs(TrialPool, MaxReuseLen) :
          \E js \in Orders(ExtractJournals(pm \o ct)) :
            /\ drugs' = ds
            /\ pubmed' = pm
            /\ trials' = ct
            /\ graph' = BuildGraph(graph, ds, pm, ct, js)
    /\ builds' = builds + 1
    /\ pc' = "built"
    /\ UNCHANGED <<doc, loaded, query, result>>
    /\ UNCHANGED <<today, files, pubmed_csv_list, pubmed_json_list, gml>>

\* save_graph_json (main.py): save_graph_to_json(graph, output_path); a
\* record pydantic rejects raises before the file is opened
SaveGraphJson ==
    /\ pc = "built"
    /\ IF SaveRaises(graph)
       THEN doc' = doc /\ pc' = "failed"
       ELSE doc' = SaveGraphToJson(graph) /\ pc' = "saved"
    /\ UNCHANGED <<drugs, pubmed, trials, graph, builds, loaded, query, result>>
    /\ UNCHANGED <<today, files, pubmed_csv_list, pubmed_json_list, gml>>

\* load_graph_from_json(json_path)
LoadGraph ==
    /\ pc = "saved"
    /\ IF LoadRaises(doc)
       THEN loaded' = loaded /\ pc' = "failed"
       ELSE loaded' = LoadGraphFromJson(doc) /\ pc' = "loaded"
    /\ UNCHANGED <<drugs, pubmed, trials, graph, builds, doc, query, result>>
    /\ UNCHANGED <<today, files, pubmed_csv_list, pubmed_json_list, gml>>

\* find_journal_with_most_drugs(graph_path)
QueryMostDrugs ==
    /\ pc = "saved"
    /\ query' = [name |-> "find_journal_with_most_drugs", drug_name |-> None]
    /\ result' = FindJournalWithMostDrugs(doc)
    /\ pc' = "answered"
    /\ UNCHANGED <<drugs, pubmed, trials, graph, builds, doc, loaded>>
    /\ UNCHANGED <<today, files, pubmed_csv_list, pubmed_json_list, gml>>

\* find_journals_with_most_mentions_of_drug(graph_path, drug_name)
QueryMostMentions ==
    /\ pc = "saved"
    /\ \E drug_name \in DrugNameArgs :
        /\ query' = [name |-> "find_journals_with_most_mentions_of_drug",
                     drug_name |-> drug_name]
        /\ result' = FindJournalsWithMostMentionsOfDrug(doc, drug_name)
    /\ pc' = "answered"
    /\ UNCHANGED <<drugs, pubmed, trials, graph, builds, doc, loaded>>
    /\ UNCHANGED <<today, files, pubmed_csv_list, pubmed_json_list, gml>>

Next ==
    \/ BuildDrugMentionGraph
    \/ SaveGraphJson
    \/ LoadGraph
    \/ QueryMostDrugs
    \/ QueryMostMentions

Spec == Init /\ [][Next]_vars

\* the same transformer used for more than one build_graph call
NextReuse ==
    \/ TransformerBuildGraph
    \/ SaveGraphJson

SpecReuse == Init /\ [][NextReuse]_vars

-----------------------------------------------------------------------------
(* Documents that were not written by this run: load_graph_from_json and   *)
(* the queries take the path of any JSON file                              *)

MaxDocRels == 2

DrugRec(atccode, name) == [atccode |-> atccode, name |-> name]
JournalRec(name) == [name |-> name]
PubRec(id, title, date, journal_name, source_type) ==
    [id |-> id, title |-> title, date |-> date,
     journal_name |-> journal_name, source_type |-> source_type]
Rel(source_id, source_type, target_id, target_type) ==
    [source |-> [id |-> source_id, type |-> source_type],
     target |-> [id |-> target_id, type |-> target_type],
     type |-> Relationship,
     date_mention |-> TxtDate2020]

\* the names of the second and third journal share their first 20 characters
DocJournalPool ==
    { JournalRec(TxtNEJM), JournalRec(TxtJournalMaternal),
      JournalRec(TxtJournalMaternity) }

\* relationships to journals of the pool and to a publication; the drug of
\* the sixth is in no document, the last has no "source"
RelPool ==
    { Rel(TxtA1, "drug", TxtNEJM, "journal"),
      Rel(TxtA2, "drug", TxtNEJM, "journal"),
      Rel(TxtA1, "drug", TxtJournalMaternal, "journal"),
      Rel(TxtA2, "drug", TxtJournalMaternity, "journal"),
      Rel(TxtA1, "drug", TxtId1, "pubmed"),
      Rel(TxtA3, "drug", TxtNEJM, "journal"),
      Rel(Absent, NoType, TxtNEJM, "journal") }

Document(keys, pubkeys, ds, pm, ct, js, rels) ==
    [keys |-> keys,
     drugs |-> ds,
     publications |-> [keys |-> pubkeys, pubmed |-> pm, clinical_trials |-> ct],
     journals |-> js,
     relationships |-> rels]

DocDrugs12 == <<DrugRec(TxtA1, TxtEpinephrineLower), DrugRec(TxtA2, TxtAmphetamine)>>
DocDrugs21 == <<DrugRec(TxtA2, TxtAmphetamine), DrugRec(TxtA1, TxtEpinephrineLower)>>
DocPubmed1 ==
    <<PubRec(TxtId1, TxtTitleAnaphylaxis, TxtDate2020, TxtNEJM, "pubmed")>>
DocTrials1 ==
    <<PubRec(TxtId1, TxtTitleTrial, TxtDate2018, TxtNEJM, "clinical_trial")>>

\* documents with every key and every field: two drugs, one publication,
\* any journals of the pool in any order, relationships in any order
CompleteDocuments ==
    { Document(TopLevelKeys, PublicationKeys, ds, DocPubmed1, <<>>, js, rels) :
        ds \in {DocDrugs12, DocDrugs21},
        js \in InjSeqs(DocJournalPool, Cardinality(DocJournalPool)),
        rels \in InjSeqs(RelPool, MaxDocRels) }

\* one document with keys left out
DocumentsWithoutKeys ==
    { Document(keys, pubkeys, DocDrugs12, DocPubmed1, DocTrials1,
               <<JournalRec(TxtNEJM)>>,
               <<Rel(TxtA1, "drug", TxtNEJM, "journal"),
                 Rel(TxtA1, "drug", TxtId1, "pubmed")>>) :
        keys \in SUBSET TopLevelKeys, pubkeys \in SUBSET PublicationKeys }

\* the same document with one field of one record left out, or with the
\* title of its publication empty
DocumentsWithoutFields ==
    { Document(TopLevelKeys, PublicationKeys, ds, pm, <<>>, js,
               <<Rel(TxtA1, "drug", TxtNEJM, "journal"),
                 Rel(TxtA1, "drug", TxtId1, "pubmed")>>) :
        ds \in { <<DrugRec(TxtA1, TxtEpinephrineLower)>>,
                 <<DrugRec(Absent, TxtEpinephrineLower)>>,
                 <<DrugRec(TxtA1, Absent)>> },
        pm \in { DocPubmed1,
                 <<PubRec(Absent, TxtTitleAnaphylaxis, TxtDate2020, TxtNEJM, "pubmed")>>,
                 <<PubRec(TxtId1, Absent, TxtDate2020, TxtNEJM, "pubmed")>>,
                 <<PubRec(TxtId1, TxtBlank, TxtDate2020, TxtNEJM, "pubmed")>> },
        js \in { <<JournalRec(TxtNEJM)>>, <<JournalRec(Absent)>> } }

\* a document with a pubmed publication and a trial of the same id, and one
\* relationship: to the one, to the other, to a "journal" named as a drug,
\* or from a "journal" named as a drug
DocumentsAcrossKinds ==
    { Document(TopLevelKeys, PublicationKeys, DocDrugs12, DocPubmed1, DocTrials1,
               <<JournalRec(TxtNEJM)>>, <<rel>>) :
        rel \in { Rel(TxtA1, "drug", TxtId1, "pubmed"),
                  Rel(TxtA1, "drug", TxtId1, "clinical_trial"),
                  Rel(TxtA1, "drug", TxtAmphetamine, "journal"),
                  Rel(TxtAmphetamine, "journal", TxtId1, "pubmed") } }

Documents ==
    CompleteDocuments \cup DocumentsWithoutKeys \cup DocumentsWithoutFields
        \cup DocumentsAcrossKinds

\* a document is on disk
InitImport ==
    /\ drugs = <<>>
    /\ pubmed = <<>>
    /\ trials = <<>>
    /\ graph = EmptyGraph
    /\ builds = 0
    /\ doc \in Documents
    /\ loaded = NoGraph
    /\ query = NoQuery
    /\ result = NoResult
    /\ pc = "saved"
    /\ files = NoFiles
    /\ pubmed_csv_list = <<>>
    /\ pubmed_json_list = <<>>
    /\ gml = NoDoc
    /\ today = ClockDay

\* the path given to the analytics leads to no file, to a document that
\* lacks keys or fields, or to one whose relationships cross kinds
InitAnalytics ==
    /\ drugs = <<>>
    /\ pubmed = <<>>
    /\ trials = <<>>
    /\ graph = EmptyGraph
    /\ builds = 0
    /\ doc \in {NoDoc} \cup DocumentsWithoutKeys \cup DocumentsWithoutFields
                  \cup DocumentsAcrossKinds
    /\ loaded = NoGraph
    /\ query = NoQuery
    /\ result = NoResult
    /\ pc = "saved"
    /\ files = NoFiles
    /\ pubmed_csv_list = <<>>
    /\ pubmed_json_list = <<>>
    /\ gml = NoDoc
    /\ today = ClockDay

NextAnalytics == QueryMostDrugs \/ QueryMostMentions

SpecAnalytics == InitAnalytics /\ [][NextAnalytics]_vars

NextImport ==
    \/ LoadGraph
    \/ QueryMostDrugs
    \/ QueryMostMentions

SpecImport == InitImport /\ [][NextImport]_vars

-----------------------------------------------------------------------------
(* The entity values on their own: construction, == and hash() *)

\* drugs that share an atccode or a name with a drug of DrugPool
DrugValues ==
    DrugPool \cup {Drug(TxtA1, TxtEPINEPHRINE), Drug(TxtA2, TxtEpinephrine)}

\* the publications of the pools and one that has the id and the source of
\* the first with another title, date and journal
PublicationValues ==
    PubmedPool \cup TrialPool \cup
        {Publication(TxtId1, TxtTitleAsthma, TxtDate2019, TxtJournalMaternity,
                     "pubmed")}

JournalValues == {Journal(TxtNEJM), Journal(TxtNEJMLower), Journal(TxtJournalMaternal)}

EntityValues == DrugValues \cup PublicationValues \cup JournalValues

\* the arguments given for an identity field
IdentityArgs(text) == {text, TxtBlank, None}

\* Drug(atccode=atccode, name=name)
ConstructDrug ==
    /\ pc = "start"
    /\ \E atccode \in IdentityArgs(TxtA1), name \in {TxtEpinephrine, TxtBlank} :
        /\ query' = [name |-> "Drug", identity |-> atccode]
        /\ result' = DrugInit(atccode, name)
    /\ pc' = "constructed"
    /\ UNCHANGED <<drugs, pubmed, trials, graph, builds, doc, loaded>>
    /\ UNCHANGED <<today, files, pubmed_csv_list, pubmed_json_list, gml>>

\* Publication(id=id, title=..., date=..., journal_name=..., source_type=...)
ConstructPublication ==
    /\ pc = "start"
    /\ \E id \in IdentityArgs(TxtId1), source_type \in PublicationTypes :
        /\ query' = [name |-> "Publication", identity |-> id]
        /\ result' = PublicationInit(id, TxtTitleAnaphylaxis, TxtDate2020,
                                     TxtNEJM, source_type)
    /\ pc' = "constructed"
    /\ UNCHANGED <<drugs, pubmed, trials, graph, builds, doc, loaded>>
    /\ UNCHANGED <<today, files, pubmed_csv_list, pubmed_json_list, gml>>

\* Journal(name=name)
ConstructJournal ==
    /\ pc = "start"
    /\ \E name \in IdentityArgs(TxtNEJM) :
        /\ query' = [name |-> "Journal", identity |-> name]
        /\ result' = JournalInit(name)
    /\ pc' = "constructed"
    /\ UNCHANGED <<drugs, pubmed, trials, graph, builds, doc, loaded>>
    /\ UNCHANGED <<today, files, pubmed_csv_list, pubmed_json_list, gml>>

\* a == b, hash(a), hash(b)
CompareEntities ==
    /\ pc = "start"
    /\ \E a \in EntityValues, b \in EntityValues :
        /\ query' = [name |-> "__eq__", a |-> a, b |-> b]
        /\ result' = [eq |-> EntityEq(a, b),
                      hash_a |-> EntityHash(a), hash_b |-> EntityHash(b)]
    /\ pc' = "compared"
    /\ UNCHANGED <<drugs, pubmed, trials, graph, builds, doc, loaded>>
    /\ UNCHANGED <<today, files, pubmed_csv_list, pubmed_json_list, gml>>

NextEntities ==
    \/ ConstructDrug
    \/ ConstructPublication
    \/ ConstructJournal
    \/ CompareEntities

SpecEntities == Init /\ [][NextEntities]_vars

-----------------------------------------------------------------------------
(* Extraction: src/pipeline/extractors.py *)

\* "02/01/2020"
TxtDateDayFirst == <<48, 50, 47, 48, 49, 47, 50, 48, 50, 48>>
\* "25 May 2020"
TxtDateLong == <<50, 53, 32, 77, 97, 121, 32, 50, 48, 50, 48>>
\* "unknown"
TxtDateUnknown == <<117, 110, 107, 110, 111, 119, 110>>
\* "2020-01-02"
TxtDate20200102 == <<50, 48, 50, 48, 45, 48, 49, 45, 48, 50>>
\* "2020-05-25"
TxtDate20200525 == <<50, 48, 50, 48, 45, 48, 53, 45, 50, 53>>
\* "  Dextroamphetamine and epinephrine "
TxtTitlePadded == <<32, 32, 68, 101, 120, 116, 114, 111, 97, 109, 112, 104, 101, 116, 97, 109, 105, 110, 101, 32, 97, 110, 100, 32, 101, 112, 105, 110, 101, 112, 104, 114, 105, 110, 101, 32>>
\* " NEJM  "
TxtJournalPadded == <<32, 78, 69, 74, 77, 32, 32>>
\* " amphetamine "
TxtDrugPadded == <<32, 97, 109, 112, 104, 101, 116, 97, 109, 105, 110, 101, 32>>
\* the month names of %B, lower-cased
MonthNames ==
    << <<106, 97, 110, 117, 97, 114, 121>>,
       <<102, 101, 98, 114, 117, 97, 114, 121>>,
       <<109, 97, 114, 99, 104>>,
       <<97, 112, 114, 105, 108>>,
       <<109, 97, 121>>,
       <<106, 117, 110, 101>>,
       <<106, 117, 108, 121>>,
       <<97, 117, 103, 117, 115, 116>>,
       <<115, 101, 112, 116, 101, 109, 98, 101, 114>>,
       <<111, 99, 116, 111, 98, 101, 114>>,
       <<110, 111, 118, 101, 109, 98, 101, 114>>,
       <<100, 101, 99, 101, 109, 98, 101, 114>> >>

Raised(error) == [raised |-> error]
Returned(value) == [returned |-> value]
IsRaised(outcome) == "raised" \in DOMAIN outcome

\* a file that is not there
MissingFile == [exists |-> FALSE]
\* a CSV file with its header and records, or a JSON list of objects with
\* the keys its objects have (a null is None)
File(columns, rows) == [exists |-> TRUE, columns |-> columns, rows |-> rows]

\* the default na_values of pd.read_csv, the empty cell aside: #N/A, #N/A N/A, #NA, -1.#IND, -1.#QNAN, -NaN, -nan, 1.#IND, 1.#QNAN, <NA>, N/A, NA, NULL, NaN, None, n/a, nan, null
NaStrings ==
    { <<35, 78, 47, 65>>,
      <<35, 78, 47, 65, 32, 78, 47, 65>>,
      <<35, 78, 65>>,
      <<45, 49, 46, 35, 73, 78, 68>>,
      <<45, 49, 46, 35, 81, 78, 65, 78>>,
      <<45, 78, 97, 78>>,
      <<45, 110, 97, 110>>,
      <<49, 46, 35, 73, 78, 68>>,
      <<49, 46, 35, 81, 78, 65, 78>>,
      <<60, 78, 65, 62>>,
      <<78, 47, 65>>,
      <<78, 65>>,
      <<78, 85, 76, 76>>,
      <<78, 97, 78>>,
      <<78, 111, 110, 101>>,
      <<110, 47, 97>>,
      <<110, 97, 110>>,
      <<110, 117, 108, 108>> }

\* pd.isna(value)
IsNa(value) == value \in {None, NaN}

\* pd.read_csv(path, dtype=str): an empty cell and a cell spelling one of
\* the default na_values are read as NaN
ReadCsv(file) ==
    [columns |-> file.columns,
     rows |-> [i \in 1..Len(file.rows) |->
                 [c \in DOMAIN file.rows[i] |->
                     IF file.rows[i][c] \in {<<>>, None} \cup NaStrings
                     THEN NaN ELSE file.rows[i][c]]]]

\* pd.DataFrame(self._read_json_safely()): no object, no column
ReadJson(file) ==
    [columns |-> IF file.rows = <<>> THEN {} ELSE file.columns,
     rows |-> file.rows]

PubmedRow(id, title, date, journal) ==
    [id |-> id, title |-> title, date |-> date, journal |-> journal]

\* s.strip()
RECURSIVE LStrip(_)
LStrip(s) ==
    IF s # <<>> /\ Head(s) \in Whitespace THEN LStrip(Tail(s)) ELSE s
RECURSIVE RStrip(_)
RStrip(s) ==
    IF s # <<>> /\ s[Len(s)] \in Whitespace
    THEN RStrip(SubSeq(s, 1, Len(s) - 1))
    ELSE s
Strip(s) == RStrip(LStrip(s))

\* the fields of s between the separators
RECURSIVE Split(_, _)
Split(s, sep) ==
    IF \A i \in 1..Len(s) : s[i] # sep THEN <<s>>
    ELSE LET i == CHOOSE j \in 1..Len(s) :
                      s[j] = sep /\ \A k \in 1..(j - 1) : s[k] # sep
         IN  <<SubSeq(s, 1, i - 1)>> \o Split(SubSeq(s, i + 1, Len(s)), sep)

\* the zero of every run of decimal digits \d matches and int() reads
DigitStarts ==
    { 48, 1632, 1776, 1984, 2406, 2534, 2662, 2790,
      2918, 3046, 3174, 3302, 3430, 3558, 3664, 3792,
      3872, 4160, 4240, 6112, 6160, 6470, 6608, 6784,
      6800, 6992, 7088, 7232, 7248, 42528, 43216, 43264,
      43472, 43504, 43600, 44016, 65296, 66720, 68912, 69734,
      69872, 69942, 70096, 70384, 70736, 70864, 71248, 71360,
      71472, 71904, 72016, 72784, 73040, 73120, 92768, 92864,
      93008, 120782, 120792, 120802, 120812, 120822, 123200, 123632,
      125264, 130032 }

IsDigit(c) == \E z \in DigitStarts : c \in z..(z + 9)
DigitValue(c) == c - (CHOOSE z \in DigitStarts : c \in z..(z + 9))

\* int(s) of a text of digits
RECURSIVE ToNat(_)
ToNat(s) ==
    IF s = <<>> THEN 0
    ELSE 10 * ToNat(SubSeq(s, 1, Len(s) - 1)) + DigitValue(s[Len(s)])

\* n in decimal, zero-padded to width characters
RECURSIVE Padded(_, _)
Padded(n, width) ==
    IF width = 0 THEN <<>>
    ELSE Append(Padded(n \div 10, width - 1), 48 + (n % 10))

IsLeap(year) == year % 4 = 0 /\ (year % 100 # 0 \/ year % 400 = 0)
DaysIn(year, month) ==
    IF month = 2 THEN (IF IsLeap(year) THEN 29 ELSE 28)
    ELSE IF month \in {4, 6, 9, 11} THEN 30 ELSE 31

\* a pd.Timestamp at midnight, and the failure of a format to match
Timestamp(year, month, day) == [year |-> year, month |-> month, day |-> day]
NoMatch == [nomatch |-> TRUE]

\* pd.Timestamp of a year, a month and a day: there is none for a day the
\* month does not have, nor outside 1677-09-22 .. 2262-04-11
TimestampOf(year, month, day) ==
    IF /\ day \in 1..DaysIn(year, month)
       /\ 16770922 <= (year * 100 + month) * 100 + day
       /\ (year * 100 + month) * 100 + day <= 22620411
    THEN Timestamp(year, month, day)
    ELSE NoMatch

\* %Y of strptime: \d\d\d\d
IsYear(s) == Len(s) = 4 /\ \A i \in 1..4 : IsDigit(s[i])
\* %m of strptime: 1[0-2]|0[1-9]|[1-9]
IsMonth(s) ==
    \/ Len(s) = 1 /\ s[1] \in 49..57
    \/ Len(s) = 2 /\ s[1] = 49 /\ s[2] \in 48..50
    \/ Len(s) = 2 /\ s[1] = 48 /\ s[2] \in 49..57
\* %d of strptime: 3[0-1]|[1-2]\d|0[1-9]|[1-9]| [1-9]
MatchesDay(s) ==
    \/ Len(s) = 2 /\ s[1] = 51 /\ s[2] \in 48..49
    \/ Len(s) = 2 /\ s[1] \in 49..50 /\ IsDigit(s[2])
    \/ Len(s) = 2 /\ s[1] = 48 /\ s[2] \in 49..57
    \/ Len(s) = 1 /\ s[1] \in 49..57
    \/ Len(s) = 2 /\ s[1] = 32 /\ s[2] \in 49..57
\* int() of the text %d matched
DayOf(s) == IF s[1] = 32 THEN s[2] - 48 ELSE ToNat(s)
\* %B of strptime, case ignored
IsMonthName(s) == \E m \in 1..12 : MonthNames[m] = Lower(s)
MonthOfName(s) == CHOOSE m \in 1..12 : MonthNames[m] = Lower(s)

\* pd.NaT
NaT == [nat |-> TRUE]
\* None, where pd.to_datetime returns it
NoDate == [none |-> TRUE]
\* "NaT"
TxtNaT == <<78, 97, 84>>

\* pd.to_datetime(date_str, format="%Y-%m-%d")
ParseYmd(s) ==
    LET Fields(f) ==
            IF Len(f) = 3 /\ IsYear(f[1]) /\ IsMonth(f[2]) /\ MatchesDay(f[3])
            THEN TimestampOf(ToNat(f[1]), ToNat(f[2]), DayOf(f[3]))
            ELSE NoMatch
    IN  Fields(Split(s, 45))

\* pd.to_datetime(date_str, format="%d/%m/%Y")
ParseDmy(s) ==
    LET Fields(f) ==
            IF Len(f) = 3 /\ IsYear(f[3]) /\ IsMonth(f[2]) /\ MatchesDay(f[1])
            THEN TimestampOf(ToNat(f[3]), ToNat(f[2]), DayOf(f[1]))
            ELSE NoMatch
    IN  Fields(Split(s, 47))

\* the text up to its first white space
UntilSpace(s) ==
    IF \A i \in 1..Len(s) : s[i] \notin Whitespace THEN s
    ELSE SubSeq(s, 1, (CHOOSE j \in 1..Len(s) :
                          s[j] \in Whitespace
                          /\ \A k \in 1..(j - 1) : s[k] \notin Whitespace) - 1)

\* the number of characters %d takes at the start of the text when white
\* space has to follow: two, one, or none when %d does not match
DayLen(s) ==
    IF Len(s) >= 3 /\ MatchesDay(SubSeq(s, 1, 2)) /\ s[3] \in Whitespace THEN 2
    ELSE IF Len(s) >= 2 /\ s[1] \in 49..57 /\ s[2] \in Whitespace THEN 1
    ELSE 0

\* the fields of "%d %B %Y", where a blank of the format stands for \s+
FieldsDBY(s) ==
    LET Last(day, rest, month) ==
            IF Len(month) = Len(rest) THEN <<>>
            ELSE <<day, month, LStrip(SubSeq(rest, Len(month) + 1, Len(rest)))>>
        Rest(day, rest) == Last(day, rest, UntilSpace(rest))
        Day(n) ==
            IF n = 0 THEN <<>>
            ELSE Rest(SubSeq(s, 1, n), LStrip(SubSeq(s, n + 1, Len(s))))
    IN  Day(DayLen(s))

\* pd.to_datetime(date_str, format="%d %B %Y")
ParseDBY(s) ==
    LET Fields(f) ==
            IF Len(f) = 3 /\ IsYear(f[3]) /\ IsMonthName(f[2]) /\ MatchesDay(f[1])
            THEN TimestampOf(ToNat(f[3]), MonthOfName(f[2]), DayOf(f[1]))
            ELSE NoMatch
    IN  Fields(FieldsDBY(s))

\* "now", "today"
TxtNow == <<110, 111, 119>>
TxtToday == <<116, 111, 100, 97, 121>>

\* _parse_date: pd.to_datetime gives None for None, NaT for a missing value
\* and the current time for "now" and "today", whatever the format; else the
\* first of the three formats that matches, else ValueError
ParseDate(date_str) ==
    LET \* the texts pd.to_datetime reads as NaT: NaT, nat, NAT, nan, NaN, NAN
        nat_strings ==
            { <<78, 97, 84>>, <<110, 97, 116>>, <<78, 65, 84>>,
              <<110, 97, 110>>, <<78, 97, 78>>, <<78, 65, 78>> }
        First(matches) ==
            IF matches = <<>> THEN Raised("ValueError") ELSE matches[1]
    IN  IF date_str = None THEN NoDate
        ELSE IF date_str = NaN \/ date_str = <<>> \/ date_str \in nat_strings THEN NaT
        ELSE IF date_str \in {TxtNow, TxtToday} THEN today
        ELSE First(SelectSeq(
                 <<ParseYmd(date_str), ParseDmy(date_str), ParseDBY(date_str)>>,
                 LAMBDA parsed : parsed # NoMatch))

\* str(timestamp.date())
DateStr(ts) ==
    IF ts = NaT THEN TxtNaT
    ELSE Padded(ts.year, 4) \o <<45>> \o Padded(ts.month, 2) \o <<45>>
            \o Padded(ts.day, 2)

\* df.drop_duplicates(subset=["id"]): the first row of each id, in order
RECURSIVE DropDuplicates(_)
DropDuplicates(rows) ==
    IF rows = <<>> THEN <<>>
    ELSE LET front == DropDuplicates(SubSeq(rows, 1, Len(rows) - 1))
             last == rows[Len(rows)]
         IN  IF \E i \in 1..Len(front) : front[i].id = last.id
             THEN front
             ELSE Append(front, last)

\* df["date"].apply(self._parse_date): the rows with their dates parsed, or
\* the ValueError of a date that is in no format; the column the results
\* make is of datetimes, its None read as NaT, unless every result is None
ParseDates(rows) ==
    LET Applied(parsed) ==
            IF \E i \in 1..Len(parsed) : IsRaised(parsed[i].date)
            THEN Raised("ValueError")
            ELSE IF \A i \in 1..Len(parsed) : parsed[i].date = NoDate
            THEN Returned(parsed)
            ELSE Returned([i \in 1..Len(parsed) |->
                     IF parsed[i].date = NoDate
                     THEN [parsed[i] EXCEPT !.date = NaT] ELSE parsed[i]])
    IN  Applied([i \in 1..Len(rows) |->
                    [rows[i] EXCEPT !.date = ParseDate(rows[i].date)]])

\* the end of both _clean functions: the dates parsed, then
\* drop_duplicates(subset=["id"])
ParseAndDeduplicate(rows) ==
    LET Deduplicated(dated) ==
            IF IsRaised(dated) THEN dated
            ELSE Returned(DropDuplicates(dated.returned))
    IN  Deduplicated(ParseDates(rows))

\* _clean_publication_data
CleanPublicationData(df) ==
    IF ~({"id", "title", "date", "journal"} \subseteq df.columns)
    THEN Raised("ValueError")
    ELSE ParseAndDeduplicate(
             SelectSeq(df.rows, LAMBDA row : ~IsNa(row.id) /\ row.id # <<>>))

\* PublicationExtractor(input_path).extract(file_type)
PublicationExtractorExtract(file, file_type) ==
    LET Publications(df) ==
            IF IsRaised(df) THEN df
            ELSE IF \E i \in 1..Len(df.returned) :
                       \/ IsNa(df.returned[i].title)
                       \/ df.returned[i].date = NoDate
                       \/ IsNa(df.returned[i].journal)
            THEN Raised("AttributeError")
            ELSE Returned([i \in 1..Len(df.returned) |->
                     PublicationInit(df.returned[i].id,
                                     Strip(df.returned[i].title),
                                     DateStr(df.returned[i].date),
                                     Strip(df.returned[i].journal), "pubmed")])
    IN  IF ~file.exists THEN Raised("FileNotFoundError")
        ELSE IF file_type \notin {"csv", "json"} THEN Raised("UnboundLocalError")
        ELSE Publications(CleanPublicationData(
                 IF file_type = "csv" THEN ReadCsv(file) ELSE ReadJson(file)))

\* _clean_clinical_trial_data
CleanClinicalTrialData(df) ==
    LET Titled(row) ==
            /\ ~IsNa(row.id) /\ row.id # <<>>
            /\ ~IsNa(row.scientific_title)
            /\ Strip(row.scientific_title) # <<>>
        Stripped(row) ==
            [row EXCEPT
                !.scientific_title = Strip(row.scientific_title),
                !.journal = IF IsNa(row.journal) THEN <<>> ELSE Strip(row.journal)]
        StrippedRows(titled) == [i \in 1..Len(titled) |-> Stripped(titled[i])]
    IN  IF ~({"id", "scientific_title", "date", "journal"} \subseteq df.columns)
        THEN Raised("ValueError")
        ELSE ParseAndDeduplicate(
                 SelectSeq(StrippedRows(SelectSeq(df.rows, Titled)),
                           LAMBDA row : row.journal # <<>>))

\* ClinicalTrialExtractor(input_path).extract()
ClinicalTrialExtractorExtract(file) ==
    LET Trials(df) ==
            IF IsRaised(df) THEN df
            ELSE Returned([i \in 1..Len(df.returned) |->
                     PublicationInit(df.returned[i].id,
                                     Strip(df.returned[i].scientific_title),
                                     DateStr(df.returned[i].date),
                                     Strip(df.returned[i].journal),
                                     "clinical_trial")])
    IN  IF ~file.exists THEN Raised("FileNotFoundError")
        ELSE Trials(CleanClinicalTrialData(ReadCsv(file)))

\* DrugExtractor(input_path).extract()
DrugExtractorExtract(file) ==
    IF ~file.exists THEN Raised("FileNotFoundError")
    ELSE LET df == ReadCsv(file)
             failing == {i \in 1..Len(df.rows) :
                            IsNa(df.rows[i].drug) \/ IsNa(df.rows[i].atccode)}
             first == CHOOSE i \in failing : \A j \in failing : i <= j
         IN  IF df.rows # <<>> /\ ~({"atccode", "drug"} \subseteq df.columns)
             THEN Raised("KeyError")
             ELSE IF failing = {}
             THEN Returned([i \in 1..Len(df.rows) |->
                      DrugInit(df.rows[i].atccode, Strip(df.rows[i].drug))])
             ELSE IF IsNa(df.rows[first].drug) THEN Raised("AttributeError")
             ELSE Raised("ValidationError")

-----------------------------------------------------------------------------
(* The pipeline: main.py *)

MaxFileRows == 2

DrugRow(atccode, drug) == [atccode |-> atccode, drug |-> drug]
TrialRow(id, scientific_title, date, journal) ==
    [id |-> id, scientific_title |-> scientific_title, date |-> date,
     journal |-> journal]

DrugColumns == {"atccode", "drug"}
PubmedColumns == {"id", "title", "date", "journal"}
TrialColumns == {"id", "scientific_title", "date", "journal"}

\* drugs.csv: missing, two drugs (one name padded), or a drug without name
DrugFiles ==
    { MissingFile,
      File(DrugColumns, <<DrugRow(TxtA1, TxtEpinephrine), DrugRow(TxtA2, TxtDrugPadded)>>),
      File(DrugColumns, <<DrugRow(TxtA1, TxtEpinephrine), DrugRow(TxtA2, TxtBlank)>>) }

\* pubmed.csv: records of id 1 and of id 3, the latter with a date in no
\* accepted format
PubmedCsvRows ==
    { PubmedRow(TxtId1, TxtTitleAnaphylaxis, TxtDate2020, TxtNEJM),
      PubmedRow(TxtId3, TxtTitleAsthma, TxtDateUnknown, TxtJournalMaternity) }

\* pubmed.json: a record of id 1 again and one of id 2 without journal
PubmedJsonRows ==
    { PubmedRow(TxtId1, TxtTitlePadded, TxtDateDayFirst, TxtJournalPadded),
      PubmedRow(TxtId2, TxtTitleAbuse, TxtDateLong, TxtBlank) }

\* clinical_trials.csv: two records of id 1
TrialRows ==
    { TrialRow(TxtId1, TxtTitleTrial, TxtDate2018, TxtNEJM),
      TrialRow(TxtId1, TxtTitleUse, TxtDateLong, TxtJournalMaternal) }

FilesOf(columns, rows) ==
    {MissingFile} \cup {File(columns, r) : r \in InjSeqs(rows, MaxFileRows)}

\* what run_pipeline reads at paths["drugs"], paths["pubmed_csv"],
\* paths["pubmed_json"] and paths["clinical_trials"]
InputFiles ==
    [drugs : DrugFiles,
     pubmed_csv : FilesOf(PubmedColumns, PubmedCsvRows),
     pubmed_json : FilesOf(PubmedColumns, PubmedJsonRows),
     clinical_trials : FilesOf(TrialColumns, TrialRows)]

\* extract_drugs(drug_path)
ExtractDrugs(file) == DrugExtractorExtract(file)
\* extract_pubmed_csv(pubmed_csv_path)
ExtractPubmedCsv(file) == PublicationExtractorExtract(file, "csv")
\* extract_pubmed_json(pubmed_json_path)
ExtractPubmedJson(file) == PublicationExtractorExtract(file, "json")
\* extract_clinical_trials(clinical_trials_path)
ExtractClinicalTrials(file) == ClinicalTrialExtractorExtract(file)
\* combine_pubmed_data(pubmed_csv_list, pubmed_json_list)
CombinePubmedData(csv_list, json_list) == csv_list \o json_list

IndexOf(g, key) == CHOOSE i \in 1..Len(g.nodes) : g.nodes[i].key = key

\* nx.write_gml(graph, output_path): the nodes numbered from 0 with their
\* key as label, the edges between node numbers; a node attribute named id
\* is not written, the id of the file being the node number
WriteGml(g) ==
    LET edges == EdgesInOrder(g, 1)
    IN  [node |-> [i \in 1..Len(g.nodes) |->
                     [id |-> i - 1, label |-> g.nodes[i].key,
                      attrs |-> [g.nodes[i] EXCEPT !.id = Absent]]],
         edge |-> [i \in 1..Len(edges) |->
                     [source |-> IndexOf(g, edges[i].source) - 1,
                      target |-> IndexOf(g, edges[i].target) - 1,
                      relationship |-> edges[i].relationship,
                      date_mention |-> edges[i].date_mention]]]

\* run_pipeline is called: the input files are on disk, no output file is
InitPipeline ==
    /\ drugs = <<>>
    /\ pubmed = <<>>
    /\ trials = <<>>
    /\ graph = EmptyGraph
    /\ builds = 0
    /\ doc = NoDoc
    /\ loaded = NoGraph
    /\ query = NoQuery
    /\ result = NoResult
    /\ pc = "run_pipeline"
    /\ files \in InputFiles
    /\ pubmed_csv_list = <<>>
    /\ pubmed_json_list = <<>>
    /\ gml = NoDoc
    /\ today \in ClockDays

\* mutant: the failure is logged and the run goes on to the saves
PipelineRaiseSwallowed(outcome) ==
    /\ result' = outcome
    /\ pc' = "visualized"

\* `except Exception as e: ... raise` of run_pipeline
PipelineRaise(outcome) ==
    /\ result' = outcome
    /\ pc' = "raised"

\* drugs_list = extract_drugs(paths["drugs"])
RunExtractDrugs ==
    /\ pc = "run_pipeline"
    /\ LET outcome == ExtractDrugs(files.drugs)
       IN  IF IsRaised(outcome)
           THEN PipelineRaise(outcome) /\ drugs' = drugs
           ELSE drugs' = outcome.returned /\ pc' = "drugs" /\ result' = result
    /\ UNCHANGED <<pubmed, trials, graph, builds, doc, loaded, query>>
    /\ UNCHANGED <<today, files, pubmed_csv_list, pubmed_json_list, gml>>

\* pubmed_csv_list = extract_pubmed_csv(paths["pubmed_csv"])
RunExtractPubmedCsv ==
    /\ pc = "drugs"
    /\ LET outcome == ExtractPubmedCsv(files.pubmed_csv)
       IN  IF IsRaised(outcome)
           THEN PipelineRaise(outcome) /\ pubmed_csv_list' = pubmed_csv_list
           ELSE /\ pubmed_csv_list' = outcome.returned
                /\ pc' = "pubmed_csv"
                /\ result' = result
    /\ UNCHANGED <<drugs, pubmed, trials, graph, builds, doc, loaded, query>>
    /\ UNCHANGED <<today, files, pubmed_json_list, gml>>

\* pubmed_json_list = extract_pubmed_json(paths["pubmed_json"])
RunExtractPubmedJson ==
    /\ pc = "pubmed_csv"
    /\ LET outcome == ExtractPubmedJson(files.pubmed_json)
       IN  IF IsRaised(outcome)
           THEN PipelineRaise(outcome) /\ pubmed_json_list' = pubmed_json_list
           ELSE /\ pubmed_json_list' = outcome.returned
                /\ pc' = "pubmed_json"
                /\ result' = result
    /\ UNCHANGED <<drugs, pubmed, trials, graph, builds, doc, loaded, query>>
    /\ UNCHANGED <<today, files, pubmed_csv_list, gml>>

\* clinical_trials_list = extract_clinical_trials(paths["clinical_trials"])
RunExtractClinicalTrials ==
    /\ pc = "pubmed_json"
    /\ LET outcome == ExtractClinicalTrials(files.clinical_trials)
       IN  IF IsRaised(outcome)
           THEN PipelineRaise(outcome) /\ trials' = trials
           ELSE trials' = outcome.returned /\ pc' = "clinical_trials" /\ result' = result
    /\ UNCHANGED <<drugs, pubmed, graph, builds, doc, loaded, query>>
    /\ UNCHANGED <<today, files, pubmed_csv_list, pubmed_json_list, gml>>

\* pubmed_list = combine_pubmed_data(pubmed_csv_list, pubmed_json_list)
RunCombinePubmedData ==
    /\ pc = "clinical_trials"
    /\ pubmed' = CombinePubmedData(pubmed_csv_list, pubmed_json_list)
    /\ pc' = "combined"
    /\ UNCHANGED <<drugs, trials, graph, builds, doc, loaded, query, result>>
    /\ UNCHANGED <<today, files, pubmed_csv_list, pubmed_json_list, gml>>

\* mutant: the build does not wait for the trials
RunBuildBeforeTrials ==
    /\ pc \in {"pubmed_json", "combined"}
    /\ \E js \in Orders(ExtractJournals(pubmed_csv_list \o pubmed_json_list)) :
          graph' = BuildGraph(EmptyGraph, drugs, pubmed_csv_list \o pubmed_json_list,
                              <<>>, js)
    /\ pubmed' = pubmed_csv_list \o pubmed_json_list
    /\ builds' = builds + 1
    /\ pc' = "graph"
    /\ UNCHANGED <<drugs, trials, doc, loaded, query, result>>
    /\ UNCHANGED <<today, files, pubmed_csv_list, pubmed_json_list, gml>>

\* graph = build_drug_mention_graph(drugs_list, pubmed_list,
\* clinical_trials_list): a new transformer, one build_graph
RunBuildDrugMentionGraph ==
    /\ pc = "combined"
    /\ \E js \in Orders(ExtractJournals(pubmed \o trials)) :
          graph' = BuildGraph(EmptyGraph, drugs, pubmed, trials, js)
    /\ builds' = builds + 1
    /\ pc' = "graph"
    /\ UNCHANGED <<drugs, pubmed, trials, doc, loaded, query, result>>
    /\ UNCHANGED <<today, files, pubmed_csv_list, pubmed_json_list, gml>>

\* visualize_graph(graph, store=False): nothing is written
RunVisualizeGraph ==
    /\ pc = "graph"
    /\ pc' = "visualized"
    /\ UNCHANGED <<drugs, pubmed, trials, graph, builds, doc, loaded, query, result>>
    /\ UNCHANGED <<today, files, pubmed_csv_list, pubmed_json_list, gml>>

\* json_path = save_graph_json(graph, paths["graph_json"])
RunSaveGraphJson ==
    /\ pc = "visualized"
    /\ IF SaveRaises(graph)
       THEN PipelineRaise(ValidationError) /\ doc' = doc
       ELSE doc' = SaveGraphToJson(graph) /\ pc' = "json_path" /\ result' = result
    /\ UNCHANGED <<drugs, pubmed, trials, graph, builds, loaded, query>>
    /\ UNCHANGED <<today, files, pubmed_csv_list, pubmed_json_list, gml>>

\* gml_path = save_graph_gml(graph, paths["graph_gml"])
RunSaveGraphGml ==
    /\ pc = "json_path"
    /\ gml' = WriteGml(graph)
    /\ pc' = "gml_path"
    /\ UNCHANGED <<drugs, pubmed, trials, graph, builds, doc, loaded, query, result>>
    /\ UNCHANGED <<today, files, pubmed_csv_list, pubmed_json_list>>

\* return {"drugs": ..., "pubmed": ..., "clinical_trials": ..., "graph": ...,
\*         "json_path": ..., "gml_path": ...}
RunReturn ==
    /\ pc = "gml_path"
    /\ result' = [drugs |-> drugs, pubmed |-> pubmed, clinical_trials |-> trials,
                  graph |-> graph, json_path |-> "graph_json",
                  gml_path |-> "graph_gml"]
    /\ pc' = "returned"
    /\ UNCHANGED <<drugs, pubmed, trials, graph, builds, doc, loaded, query>>
    /\ UNCHANGED <<today, files, pubmed_csv_list, pubmed_json_list, gml>>

NextPipeline ==
    \/ RunExtractDrugs
    \/ RunExtractPubmedCsv
    \/ RunExtractPubmedJson
    \/ RunExtractClinicalTrials
    \/ RunCombinePubmedData
    \/ RunBuildDrugMentionGraph
    \/ RunVisualizeGraph
    \/ RunSaveGraphJson
    \/ RunSaveGraphGml
    \/ RunReturn

SpecPipeline == InitPipeline /\ [][NextPipeline]_vars

-----------------------------------------------------------------------------
(* One extraction: PublicationExtractor(input_path).extract(file_type) *)

MaxRecords == 2

\* two records of id 1 (the second padded, its date day first), one of
\* id 2 with a long date and no journal, one with an empty id and one of
\* id 3 both with a date in no accepted format, one without id, one of
\* id 4 without date, one of id 5 dated "now", one of id 6 with a null date
PubmedRecords ==
    { PubmedRow(TxtId1, TxtTitleAnaphylaxis, TxtDate2020, TxtNEJM),
      PubmedRow(TxtId1, TxtTitlePadded, TxtDateDayFirst, TxtJournalPadded),
      PubmedRow(TxtId2, TxtTitleAbuse, TxtDateLong, TxtBlank),
      PubmedRow(TxtBlank, TxtTitleAsthma, TxtDateUnknown, TxtJournalMaternity),
      PubmedRow(TxtId3, TxtTitleAsthma, TxtDateUnknown, TxtJournalMaternity),
      PubmedRow(None, TxtTitleSafety, TxtDate2019, TxtNEJM),
      PubmedRow(TxtId4, TxtTitleSafety, TxtBlank, TxtNEJM),
      PubmedRow(TxtId5, TxtTitleAbuse, TxtNow, TxtNEJM),
      PubmedRow(TxtId6, TxtTitleDextro, None, TxtNEJM) }

\* the file at input_path: missing, without journal column, or with at most
\* MaxRecords records
PubmedFiles ==
    { MissingFile,
      File({"id", "title", "date"},
           <<[id |-> TxtId1, title |-> TxtTitleAnaphylaxis, date |-> TxtDate2020]>>) }
        \cup {File(PubmedColumns, rows) : rows \in InjSeqs(PubmedRecords, MaxRecords)}

InitExtract ==
    /\ drugs = <<>>
    /\ pubmed = <<>>
    /\ trials = <<>>
    /\ graph = EmptyGraph
    /\ builds = 0
    /\ doc = NoDoc
    /\ loaded = NoGraph
    /\ query = NoQuery
    /\ result = NoResult
    /\ pc = "start"
    /\ files \in [input_path : PubmedFiles]
    /\ pubmed_csv_list = <<>>
    /\ pubmed_json_list = <<>>
    /\ gml = NoDoc
    /\ today \in ClockDays

\* PublicationExtractor(input_path).extract(file_type)
PublicationExtract ==
    /\ pc = "start"
    /\ \E file_type \in {"csv", "json"} :
          /\ query' = [name |-> "PublicationExtractor.extract", file_type |-> file_type]
          /\ result' = PublicationExtractorExtract(files.input_path, file_type)
    /\ pc' = "extracted"
    /\ UNCHANGED <<drugs, pubmed, trials, graph, builds, doc, loaded>>
    /\ UNCHANGED <<today, files, pubmed_csv_list, pubmed_json_list, gml>>

NextExtract == PublicationExtract

SpecExtract == InitExtract /\ [][NextExtract]_vars

-----------------------------------------------------------------------------
(* What the claims speak of, stated from the inputs *)

AllPublications == pubmed \o trials

\* the journals of the inputs: the distinct non-blank journal names
JournalNames ==
    {p.journal_name : p \in {q \in Range(AllPublications) : NonBlank(q.journal_name)}}

\* the node keys of the identity scheme
KeyOfDrug(d) == Lower(d.name)
KeyOfPub(p) == Lower(SubSeq(p.title, 1, IF Len(p.title) < 20 THEN Len(p.title) ELSE 20))
KeyOfJournal(n) == SubSeq(n, 1, IF Len(n) < 20 THEN Len(n) ELSE 20)

DerivedKeys ==
    {KeyOfDrug(d) : d \in Range(drugs)}
        \cup {KeyOfPub(p) : p \in Range(AllPublications)}
        \cup {KeyOfJournal(n) : n \in JournalNames}

EntityCount == Len(drugs) + Len(AllPublications) + Cardinality(JournalNames)

\* no two entities of the inputs have the same node key
NoKeyCollisions == Cardinality(DerivedKeys) = EntityCount

\* a occurs in b as a contiguous run of characters
IsSubstring(a, b) ==
    \E i \in 0..(Len(b) - Len(a)) : \A k \in 1..Len(a) : b[i + k] = a[k]

NameInTitle(d, p) == IsSubstring(Lower(d.name), Lower(p.title))

EdgeCount(g, u, v) ==
    Cardinality({i \in 1..Len(g.edges) :
                    g.edges[i].source = u /\ g.edges[i].target = v})

EdgeOf(g, u, v) ==
    g.edges[CHOOSE i \in 1..Len(g.edges) :
                g.edges[i].source = u /\ g.edges[i].target = v]

TypedKeys(g) == {n.key : n \in {m \in Range(g.nodes) : m.type # NoType}}

\* the publications of journal n whose title holds the name of drug d, as
\* positions in the sequence pubmed followed by trials
Matches(d, n) ==
    {i \in 1..Len(AllPublications) :
        /\ AllPublications[i].journal_name = n
        /\ NameInTitle(d, AllPublications[i])}

Min(S) == CHOOSE x \in S : \A y \in S : x <= y

\* build_graph has just returned, on a new transformer
BuiltOnce == pc = "built" /\ builds = 1

-----------------------------------------------------------------------------
(* C1 *)

\* C1: for a graph built from inputs without node-key collisions, loading
\* the document that save_graph_to_json wrote gives a graph with the same
\* node keys and the same edges (source, target, relationship, date_mention).
C1_RoundTrip ==
    (pc = "loaded" /\ builds = 1 /\ NoKeyCollisions) =>
        /\ NodeKeys(loaded) = NodeKeys(graph)
        /\ EdgeSet(loaded) = EdgeSet(graph)

-----------------------------------------------------------------------------
(* C2 *)

\* C2: after build_graph on inputs without node-key collisions the graph has
\* an edge from a drug's node to a publication's node exactly when the
\* lower-cased drug name is a substring of the lower-cased title.
C2_MentionEdges ==
    (BuiltOnce /\ NoKeyCollisions) =>
        \A d \in Range(drugs) : \A p \in Range(AllPublications) :
            HasEdge(graph, KeyOfDrug(d), KeyOfPub(p)) <=> NameInTitle(d, p)

\* "amphetamine" is linked to the title holding "Dextroamphetamine", and a
\* drug of the same build is not linked to a title without its name
C2_Witness ==
    /\ pc = "built"
    /\ NoKeyCollisions
    /\ \E d \in Range(drugs) : \E p \in Range(AllPublications) :
        /\ d.name = TxtAmphetamine
        /\ p.title = TxtTitleDextro
        /\ HasEdge(graph, KeyOfDrug(d), KeyOfPub(p))
    /\ \E d \in Range(drugs) : \E p \in Range(AllPublications) :
        ~HasEdge(graph, KeyOfDrug(d), KeyOfPub(p))

-----------------------------------------------------------------------------
(* C3 *)

\* C3 as stated, for every input: one edge from a drug's node to a
\* journal's node when a publication of that journal holds the drug's name
\* in its title, none otherwise.
C3_Original ==
    BuiltOnce =>
        \A d \in Range(drugs) : \A n \in JournalNames :
            EdgeCount(graph, KeyOfDrug(d), KeyOfJournal(n))
                = IF Matches(d, n) # {} THEN 1 ELSE 0

\* C3, amended: on inputs without node-key collisions there is exactly one
\* edge from a drug's node to a journal's node when a publication of that
\* journal holds the drug's name in its title, and none otherwise.
C3_DrugJournalEdges ==
    (BuiltOnce /\ NoKeyCollisions) =>
        \A d \in Range(drugs) : \A n \in JournalNames :
            EdgeCount(graph, KeyOfDrug(d), KeyOfJournal(n))
                = IF Matches(d, n) # {} THEN 1 ELSE 0

\* two publications of one journal match a drug, one edge; and a second drug
\* of the same build is linked to a journal as well
C3_Witness ==
    /\ pc = "built"
    /\ NoKeyCollisions
    /\ \E d \in Range(drugs) : \E n \in JournalNames :
        /\ Cardinality(Matches(d, n)) >= 2
        /\ EdgeCount(graph, KeyOfDrug(d), KeyOfJournal(n)) = 1
    /\ \E d1, d2 \in Range(drugs) : \E n \in JournalNames :
        d1 # d2 /\ Matches(d1, n) # {} /\ Matches(d2, n) # {}

-----------------------------------------------------------------------------
(* C4 *)

\* the date the claim gives the edge from d to journal n
FirstDate(d, n) == AllPublications[Min(Matches(d, n))].date

\* C4 as stated, for every input: the date_mention of a drug -> journal edge
\* is the date of the first publication, pubmed before trials, of that
\* journal whose title holds the drug's name.
C4_Original ==
    BuiltOnce =>
        \A d \in Range(drugs) : \A n \in JournalNames :
            Matches(d, n) # {} =>
                /\ HasEdge(graph, KeyOfDrug(d), KeyOfJournal(n))
                /\ EdgeOf(graph, KeyOfDrug(d), KeyOfJournal(n)).date_mention
                       = FirstDate(d, n)

\* C4, amended: on inputs without node-key collisions the date_mention of a
\* drug -> journal edge is the date of the first publication, pubmed before
\* trials, of that journal whose title holds the drug's name.
C4_FirstDateWins ==
    (BuiltOnce /\ NoKeyCollisions) =>
        \A d \in Range(drugs) : \A n \in JournalNames :
            Matches(d, n) # {} =>
                /\ HasEdge(graph, KeyOfDrug(d), KeyOfJournal(n))
                /\ EdgeOf(graph, KeyOfDrug(d), KeyOfJournal(n)).date_mention
                       = FirstDate(d, n)

\* a later matching publication of the journal has another date, and the
\* edge keeps the first one's; once with two pubmed publications, once with
\* a pubmed publication followed by a trial
C4_Witness ==
    /\ pc = "built"
    /\ NoKeyCollisions
    /\ \E d \in Range(drugs) : \E n \in JournalNames :
        /\ \E i \in Matches(d, n) :
              /\ AllPublications[i].date # FirstDate(d, n)
              /\ i > Len(pubmed)
        /\ EdgeOf(graph, KeyOfDrug(d), KeyOfJournal(n)).date_mention
               = FirstDate(d, n)

-----------------------------------------------------------------------------
(* C5 *)

\* C5 as stated: distinct entities never share a node key, so the graph has
\* as many entity nodes as the inputs have drugs, publications and journals.
C5_Original ==
    BuiltOnce => Cardinality(TypedKeys(graph)) = EntityCount

\* C5, amended: node keys are unique in the graph, and the nodes that carry
\* a kind are exactly the derived keys of the entities (lower-cased drug
\* name, first 20 characters of the lower-cased title, first 20 characters
\* of the journal name); two distinct entities share a node exactly when
\* their derived keys are equal, so the count of these nodes equals the
\* count of entities exactly when no two derived keys are equal.
C5_NodeKeys ==
    BuiltOnce =>
        /\ Len(graph.nodes) = Cardinality(NodeKeys(graph))
        /\ TypedKeys(graph) = DerivedKeys
        /\ (Cardinality(TypedKeys(graph)) = EntityCount) <=> NoKeyCollisions

\* two titles with the same first 20 characters are one node
C5_Witness ==
    /\ pc = "built"
    /\ \E i, j \in 1..Len(AllPublications) :
        /\ i # j
        /\ AllPublications[i].title # AllPublications[j].title
        /\ KeyOfPub(AllPublications[i]) = KeyOfPub(AllPublications[j])
    /\ Cardinality(TypedKeys(graph)) < EntityCount

-----------------------------------------------------------------------------
(* C6 *)

\* C6: the graph build_graph returns has the node keys and the edges of a
\* build of the same inputs on a new transformer, whatever was built before.
C6_Pure ==
    (pc = "built" /\ builds >= 1) =>
        \E js \in Orders(ExtractJournals(pubmed \o trials)) :
            LET fresh == BuildGraph(EmptyGraph, drugs, pubmed, trials, js)
            IN  /\ NodeKeys(graph) = NodeKeys(fresh)
                /\ EdgeSet(graph) = EdgeSet(fresh)

-----------------------------------------------------------------------------
(* C7 *)

\* C7 as stated: every edge of the built graph and every relationship
\* record of the document carries "mentioned_in".
C7_Original ==
    /\ BuiltOnce =>
        \A e \in EdgeSet(graph) : e.relationship = "mentioned_in"
    /\ (pc = "saved") =>
        \A i \in 1..Len(doc.relationships) :
            doc.relationships[i].type = "mentioned_in"

\* C7, amended: every edge of the built graph and every relationship record
\* of the document carries the constant "Référencé dans".
C7_Relationship ==
    /\ BuiltOnce =>
        \A e \in EdgeSet(graph) : e.relationship = "Référencé dans"
    /\ (pc = "saved") =>
        /\ Len(doc.relationships) = Len(graph.edges)
        /\ \A i \in 1..Len(doc.relationships) :
            doc.relationships[i].type = "Référencé dans"

\* a document with a drug -> publication and a drug -> journal record
C7_Witness ==
    /\ pc = "saved"
    /\ \E i, j \in 1..Len(doc.relationships) :
        /\ doc.relationships[i].target.type = "journal"
        /\ doc.relationships[j].target.type = "pubmed"

-----------------------------------------------------------------------------
(* C8 *)

\* the edges of g from the node `key` to journal nodes
JournalEdges(g, key) ==
    {e \in EdgeSet(g) : e.source = key /\ NodeOf(g, e.target).type = "journal"}

\* C8: for a drug of the graph linked to a journal, the count returned by
\* find_journals_with_most_mentions_of_drug is the largest number of edges
\* from the drug's node to one journal node, which is 1.
C8_Count ==
    (pc = "answered" /\ query.name = "find_journals_with_most_mentions_of_drug") =>
        LET g == LoadGraphFromJson(doc)
            es == JournalEdges(g, query.drug_name)
        IN  (HasNode(g, query.drug_name) /\ es # {}) =>
                /\ result[2] =
                    Max({Cardinality({e \in es : e.target = t}) :
                            t \in {e.target : e \in es}})
                /\ result[2] = 1

-----------------------------------------------------------------------------
(* C9 *)

\* the drug -> journal edges of g
DrugJournalEdges(g) ==
    {e \in EdgeSet(g) :
        NodeOf(g, e.source).type = "drug" /\ NodeOf(g, e.target).type = "journal"}

\* the distinct atccodes among the drugs with an edge to a journal named n
DrugsOf(g, n) ==
    {NodeOf(g, e.source).atccode :
        e \in {f \in DrugJournalEdges(g) : NodeOf(g, f.target).name = n}}

\* the answer the claim gives for graph g: the journal names with the
\* largest number of distinct atccodes among their drug -> journal edges,
\* and that number
IsMostDrugs(answer, g) ==
    LET names == {NodeOf(g, e.target).name : e \in DrugJournalEdges(g)}
    IN  names # {} =>
            LET most == Max({Cardinality(DrugsOf(g, n)) : n \in names})
            IN  /\ answer[2] = most
                /\ Range(answer[1]) =
                       {n \in names : Cardinality(DrugsOf(g, n)) = most}

\* C9: for a graph that has a drug -> journal edge,
\* find_journal_with_most_drugs returns exactly the journal names with the
\* largest number of distinct atccodes among their drug -> journal edges,
\* and that number; two drug nodes of one atccode count once.  This holds
\* of the graph the function loads from the document and of the graph the
\* document was written from.
C9_MostDrugs ==
    (pc = "answered" /\ query.name = "find_journal_with_most_drugs") =>
        /\ IsMostDrugs(result, LoadGraphFromJson(doc))
        /\ IsMostDrugs(result, graph)

\* the graph that was saved has edges from two drug nodes of one atccode to
\* a journal of the answer, and the answer counts the two once
C9_Witness ==
    /\ pc = "answered"
    /\ query.name = "find_journal_with_most_drugs"
    /\ result[2] = 1
    /\ \E e \in DrugJournalEdges(graph), f \in DrugJournalEdges(graph) :
          /\ e.source # f.source
          /\ e.target = f.target
          /\ NodeOf(graph, e.source).atccode = NodeOf(graph, f.source).atccode
          /\ NodeOf(graph, e.target).name \in Range(result[1])

-----------------------------------------------------------------------------
(* C10 *)

\* C10: find_journals_with_most_mentions_of_drug answers for a drug name in
\* any letter case as it answers for the lower-cased name.
C10_CaseInsensitive ==
    (pc = "answered" /\ query.name = "find_journals_with_most_mentions_of_drug") =>
        result = FindJournalsWithMostMentionsOfDrug(doc, Lower(query.drug_name))

-----------------------------------------------------------------------------
(* What the claims speak of, stated from a document *)

\* every key of the document and every field of its records is there
WellFormed(d) ==
    /\ d.keys = {"drugs", "publications", "journals", "relationships"}
    /\ d.publications.keys = {"pubmed", "clinical_trials"}
    /\ \A r \in Range(d.drugs) : Absent \notin {r.atccode, r.name}
    /\ \A r \in Range(d.publications.pubmed \o d.publications.clinical_trials) :
            Absent \notin {r.id, r.title, r.date, r.journal_name}
    /\ \A r \in Range(d.journals) : r.name # Absent
    /\ \A r \in Range(d.relationships) :
            /\ Absent \notin {r.source.id, r.target.id, r.date_mention}
            /\ NoType \notin {r.source.type, r.target.type, r.type}

\* the node keys of the records of a document, record by record
RecordKeys(d) ==
    [i \in 1..Len(d.drugs) |-> KeyOfDrug(d.drugs[i])]
        \o [i \in 1..Len(d.publications.pubmed) |->
                KeyOfPub(d.publications.pubmed[i])]
        \o [i \in 1..Len(d.publications.clinical_trials) |->
                KeyOfPub(d.publications.clinical_trials[i])]
        \o [i \in 1..Len(d.journals) |-> KeyOfJournal(d.journals[i].name)]

\* no two records of the document have the same node key, no two drugs the
\* same atccode
DistinctRecords(d) ==
    /\ Cardinality(Range(RecordKeys(d))) = Len(RecordKeys(d))
    /\ Cardinality({r.atccode : r \in Range(d.drugs)}) = Len(d.drugs)

\* a comes before b in the order of the code points
Before(a, b) ==
    \E k \in 1..Len(b) :
        /\ \A j \in 1..(k - 1) : j <= Len(a) /\ a[j] = b[j]
        /\ (k > Len(a) \/ (k <= Len(a) /\ a[k] < b[k]))
        /\ k <= Len(a) + 1

Ascending(names) ==
    \A i \in 1..(Len(names) - 1) : Before(names[i], names[i + 1])

\* the same document with its drugs, journals and relationships in any order
Reorderings(d) ==
    { [d EXCEPT !.drugs = ds, !.journals = js, !.relationships = rels] :
        ds \in Orders(Range(d.drugs)),
        js \in Orders(Range(d.journals)),
        rels \in Orders(Range(d.relationships)) }

\* the answer of the query q on the document d
Answer(q, d) ==
    IF q.name = "find_journal_with_most_drugs"
    THEN FindJournalWithMostDrugs(d)
    ELSE FindJournalsWithMostMentionsOfDrug(d, q.drug_name)

-----------------------------------------------------------------------------
(* C11 *)

\* the journal names that reach the maximum of the query q in the graph g
TopJournals(q, g) ==
    IF q.name = "find_journal_with_most_drugs"
    THEN LET names == {NodeOf(g, e.target).name : e \in DrugJournalEdges(g)}
         IN  {n \in names :
                \A m \in names :
                    Cardinality(DrugsOf(g, m)) <= Cardinality(DrugsOf(g, n))}
    ELSE IF HasNode(g, q.drug_name)
    THEN {NodeOf(g, e.target).name : e \in JournalEdges(g, q.drug_name)}
    ELSE {}

\* the answer lists the journals of the maximum, each once, in ascending
\* order, and is the answer for every order of the document
TieBreak ==
    LET top == TopJournals(query, LoadGraphFromJson(doc))
    IN  top # {} =>
            /\ Range(result[1]) = top
            /\ Len(result[1]) = Cardinality(top)
            /\ Ascending(result[1])
            /\ \A d \in Reorderings(doc) : Answer(query, d) = result

\* C11 as stated, for every document with all its keys and fields: both
\* queries return all the journals of the maximum, each once, in ascending
\* order of name, whatever the order of the records in the document.
C11_Original ==
    (pc = "answered" /\ WellFormed(doc)) => TieBreak

\* C11, amended: for a document in which no two records have the same node
\* key and no two drugs the same atccode, both queries return all the
\* journals of the maximum, each once, in ascending order of name, whatever
\* the order of the records in the document.
C11_TieBreak ==
    (pc = "answered" /\ WellFormed(doc) /\ DistinctRecords(doc)) => TieBreak

\* two journals are returned, and the document names them in the other order
C11_Witness ==
    /\ pc = "answered"
    /\ WellFormed(doc)
    /\ DistinctRecords(doc)
    /\ Len(result[1]) = 2
    /\ Len(doc.relationships) = 2
    /\ doc.relationships[1].target.id = result[1][2]
    /\ doc.relationships[2].target.id = result[1][1]
    /\ doc.journals[1].name = result[1][2]

-----------------------------------------------------------------------------
(* C12 *)

\* C12: both queries return (["No journals found"], 0) when the graph of
\* the document has no drug -> journal edge;
\* find_journals_with_most_mentions_of_drug returns it as well when no drug
\* node has the lower-cased drug name as key, and when that drug has no edge
\* to a journal.
C12_Sentinel ==
    (pc = "answered") =>
        LET g == LoadGraphFromJson(doc)
            key == Lower(query.drug_name)
        IN  /\ DrugJournalEdges(g) = {} =>
                result = <<<<TxtNoJournalsFound>>, 0>>
            /\ (/\ query.name = "find_journals_with_most_mentions_of_drug"
                /\ \/ ~\E n \in Range(g.nodes) : n.type = "drug" /\ n.key = key
                   \/ JournalEdges(g, key) = {})
                => result = <<<<TxtNoJournalsFound>>, 0>>

\* the drug asked for is in the graph with an edge to a publication and no
\* edge to a journal, while another drug has one
C12_Witness ==
    /\ pc = "answered"
    /\ query.name = "find_journals_with_most_mentions_of_drug"
    /\ LET g == LoadGraphFromJson(doc)
       IN  /\ HasNode(g, query.drug_name)
           /\ \E e \in EdgeSet(g) : e.source = query.drug_name
           /\ JournalEdges(g, query.drug_name) = {}
           /\ DrugJournalEdges(g) # {}
    /\ result = <<<<TxtNoJournalsFound>>, 0>>

-----------------------------------------------------------------------------
(* C13 *)

\* the (drug, publication) pairs whose title holds the name
MatchingPairs ==
    {<<i, j>> \in (1..Len(drugs)) \X (1..Len(AllPublications)) :
        NameInTitle(drugs[i], AllPublications[j])}

\* the distinct (drug, journal) pairs among those matches
MatchingJournalPairs ==
    {<<i, n>> \in (1..Len(drugs)) \X JournalNames : Matches(drugs[i], n) # {}}

\* C13: for inputs without node-key collisions the built graph has
\* |drugs| + |publications| + |distinct non-blank journal names| nodes and
\* one edge for every (drug, publication) match plus one for every distinct
\* (drug, journal) pair among the matches.
C13_Counts ==
    (BuiltOnce /\ NoKeyCollisions) =>
        /\ Len(graph.nodes) = EntityCount
        /\ Len(graph.edges) =
             Cardinality(MatchingPairs) + Cardinality(MatchingJournalPairs)

-----------------------------------------------------------------------------
(* C14 *)

\* C14: load_graph_from_json returns a graph only for a document that has
\* its four top-level collections, both publication lists and every field
\* of every record; for any other document it fails.
C14_Malformed ==
    (pc = "loaded") => WellFormed(doc)

-----------------------------------------------------------------------------
(* C15 *)

\* the node keys of the entity records of the document; a publication
\* record without a title is read with the title ""
EntityKeys(d) ==
    {KeyOfDrug(r) : r \in Range(DocDrugs(d))}
        \cup {IF r.title = Absent THEN <<>> ELSE KeyOfPub(r) :
                r \in Range(DocPubmed(d) \o DocClinicalTrials(d))}
        \cup {KeyOfJournal(r.name) : r \in Range(DocJournals(d))}

\* the nodes of g the source of a relationship record stands for
SourcesOf(g, rel) ==
    {n.key : n \in {m \in Range(g.nodes) :
        rel.source.type = "drug" /\ m.type = "drug"
            /\ m.atccode = rel.source.id}}

\* the nodes of g the target of a relationship record stands for
TargetsOf(g, rel) ==
    {n.key : n \in {m \in Range(g.nodes) :
        \/ rel.target.type \in {"pubmed", "clinical_trial"}
            /\ m.type = rel.target.type /\ m.id = rel.target.id
        \/ rel.target.type = "journal" /\ m.key = KeyOfJournal(rel.target.id)}}

\* C15: load_graph_from_json succeeds whatever the relationships are; for a
\* document with all its keys and fields the nodes of the graph are those of
\* the entity records, a relationship whose source or target stands for no
\* node adds nothing, and every relationship whose two ends stand for nodes
\* gives its edge.
C15_Unresolved ==
    /\ (pc = "failed") =>
            \E r \in Range(DocDrugs(doc)) \cup Range(DocJournals(doc)) :
                r.name = Absent
    /\ (pc = "loaded" /\ WellFormed(doc)) =>
        /\ NodeKeys(loaded) = EntityKeys(doc)
        /\ \A rel \in Range(DocRelationships(doc)) :
              (SourcesOf(loaded, rel) # {} /\ TargetsOf(loaded, rel) # {}) =>
                  \E u \in SourcesOf(loaded, rel), v \in TargetsOf(loaded, rel) :
                      HasEdge(loaded, u, v)
        /\ \A e \in EdgeSet(loaded) :
              /\ e.source \in EntityKeys(doc)
              /\ e.target \in EntityKeys(doc)
              /\ \E rel \in Range(DocRelationships(doc)) :
                    /\ e.source \in SourcesOf(loaded, rel)
                    /\ e.target \in TargetsOf(loaded, rel)

-----------------------------------------------------------------------------
(* C16 *)

\* the relationship records of the document from source id to target
HasRecord(d, source_id, target) ==
    \E i \in 1..Len(d.relationships) :
        /\ d.relationships[i].source = [id |-> source_id, type |-> "drug"]
        /\ d.relationships[i].target = target

\* C16: in the document written for a graph built from inputs without
\* node-key collisions, every relationship record has the drug's atccode as
\* source id and the publication's id or the journal's full name as target
\* id, and there is such a record for every edge of the graph.
C16_NaturalIds ==
    (pc = "saved" /\ builds = 1 /\ NoKeyCollisions) =>
        /\ \A d \in Range(drugs) : \A p \in Range(AllPublications) :
              NameInTitle(d, p) =>
                  HasRecord(doc, d.atccode, [id |-> p.id, type |-> p.source_type])
        /\ \A d \in Range(drugs) : \A n \in JournalNames :
              Matches(d, n) # {} =>
                  HasRecord(doc, d.atccode, [id |-> n, type |-> "journal"])
        /\ \A i \in 1..Len(doc.relationships) :
              /\ doc.relationships[i].source.id \in
                    {d.atccode : d \in Range(drugs)}
              /\ doc.relationships[i].target.id \in
                    {p.id : p \in Range(AllPublications)} \cup
                    {p.journal_name : p \in Range(AllPublications)}

-----------------------------------------------------------------------------
(* C17 *)

\* the keys of the nodes of g whose kind is one of `types`
KindKeys(g, types) == {n.key : n \in {m \in Range(g.nodes) : m.type \in types}}

\* the drug nodes of g have the lower-cased names as keys, the publication
\* nodes the first 20 characters of the lower-cased titles, the journal
\* nodes the first 20 characters of the names
KeyScheme(g, names, titles, journals) ==
    /\ KindKeys(g, {"drug"}) = {Lower(n) : n \in names}
    /\ KindKeys(g, {"pubmed", "clinical_trial"}) =
            {KeyOfPub([title |-> t]) : t \in titles}
    /\ KindKeys(g, {"journal"}) = {KeyOfJournal(n) : n \in journals}

\* C17: the graph build_graph returns and the graph load_graph_from_json
\* returns give a drug the lower-cased name as key, a publication the first
\* 20 characters of its lower-cased title and a journal the first 20
\* characters of its name, case kept; the loaded graph gives the records of
\* the document the keys the built graph gave the entities.
C17_KeyScheme ==
    /\ BuiltOnce =>
            KeyScheme(graph, {d.name : d \in Range(drugs)},
                      {p.title : p \in Range(AllPublications)}, JournalNames)
    /\ (pc = "loaded") =>
        /\ KeyScheme(loaded, {r.name : r \in Range(doc.drugs)},
                      {r.title : r \in Range(doc.publications.pubmed
                                    \o doc.publications.clinical_trials)},
                      {r.name : r \in Range(doc.journals)})
        /\ KeyScheme(loaded, {d.name : d \in Range(drugs)},
                      {p.title : p \in Range(AllPublications)}, JournalNames)

\* a loaded graph with a drug whose name has a capital, a title and a
\* journal name longer than 20 characters with a capital
C17_Witness ==
    /\ pc = "loaded"
    /\ \E d \in Range(drugs) : d.name = TxtEpinephrine
    /\ \E p \in Range(AllPublications) :
        /\ p.title = TxtTitleDextro
        /\ p.journal_name = TxtJournalMaternal
    /\ HasNode(loaded, TxtEpinephrineLower)
    /\ \E n \in Range(loaded.nodes) :
        n.type = "journal" /\ Len(n.key) = 20 /\ n.key # Lower(n.key)
    /\ \E n \in Range(loaded.nodes) :
        n.type = "pubmed" /\ Len(n.key) = 20 /\ Len(n.title) > 20

-----------------------------------------------------------------------------
(* C18 *)

\* C18: two Publication values are equal exactly when they have the same id
\* and the same source, whatever their title, date and journal_name, and
\* equal publications have equal hashes.
C18_PublicationIdentity ==
    (pc = "compared" /\ IsPublication(query.a) /\ IsPublication(query.b)) =>
        /\ result.eq <=>
              /\ query.a.id = query.b.id
              /\ query.a.source_type = query.b.source_type
        /\ result.eq => result.hash_a = result.hash_b

-----------------------------------------------------------------------------
(* C19 *)

\* C19: two Drug values are equal exactly when their atccode is equal, two
\* Journal values exactly when their names are the same characters; equal
\* values have equal hashes, and a Drug is equal to no Journal and to no
\* Publication, nor they to it.
C19_DrugJournalIdentity ==
    (pc = "compared") =>
        /\ (IsDrug(query.a) /\ IsDrug(query.b)) =>
              (result.eq <=> query.a.atccode = query.b.atccode)
        /\ (IsJournal(query.a) /\ IsJournal(query.b)) =>
              (result.eq <=> query.a.name = query.b.name)
        /\ (IsDrug(query.a) \/ IsJournal(query.a) \/ IsDrug(query.b)
                \/ IsJournal(query.b)) =>
              (result.eq => result.hash_a = result.hash_b)
        /\ (IsDrug(query.a) /\ ~IsDrug(query.b)) => ~result.eq
        /\ (IsDrug(query.b) /\ ~IsDrug(query.a)) => ~result.eq

\* two drugs of one atccode and two names are equal with equal hashes
C19_Witness ==
    /\ pc = "compared"
    /\ IsDrug(query.a)
    /\ IsDrug(query.b)
    /\ query.a.atccode = query.b.atccode
    /\ query.a.name # query.b.name
    /\ result.eq
    /\ result.hash_a = result.hash_b

-----------------------------------------------------------------------------
(* C20 *)

\* C20: constructing a Drug with an empty atccode, a Publication with an
\* empty id or a Journal with an empty name fails and gives no entity.
C20_InvalidEntity ==
    (pc = "constructed" /\ query.identity = <<>>) =>
        result = [raised |-> "ValidationError"]

-----------------------------------------------------------------------------
(* C21 *)

\* C21: in the graph build_graph returns, the source of every edge is a
\* drug node and the target a pubmed, clinical_trial or journal node, so no
\* edge is a self-loop.
C21_TypedEndpoints ==
    BuiltOnce =>
        \A e \in EdgeSet(graph) :
            /\ HasNode(graph, e.source)
            /\ HasNode(graph, e.target)
            /\ NodeOf(graph, e.source).type = "drug"
            /\ NodeOf(graph, e.target).type \in
                    {"pubmed", "clinical_trial", "journal"}
            /\ e.source # e.target

-----------------------------------------------------------------------------
(* C22 *)

\* C22: for inputs without node-key collisions, the journal nodes of the
\* built graph are those of the distinct non-blank journal names, and a
\* publication whose journal_name is empty or white space adds no node and
\* no edge for its journal_name.
C22_JournalDerivation ==
    (BuiltOnce /\ NoKeyCollisions) =>
        /\ {n.name : n \in {m \in Range(graph.nodes) : m.type = "journal"}}
                = JournalNames
        /\ KindKeys(graph, {"journal"}) = {KeyOfJournal(n) : n \in JournalNames}
        /\ \A p \in Range(AllPublications) :
              ~NonBlank(p.journal_name) =>
                  /\ ~HasNode(graph, KeyOfJournal(p.journal_name))
                  /\ \A d \in Range(drugs) :
                        ~HasEdge(graph, KeyOfDrug(d), KeyOfJournal(p.journal_name))

-----------------------------------------------------------------------------
(* C23 *)

\* C23: in the graph loaded from a document with all its keys and fields,
\* every edge comes from a relationship whose source type and id are the
\* kind and the atccode of the edge's source node, and whose target type is
\* the kind of the edge's target node, with the publication's id or the
\* journal's key as target id.
C23_KindScoped ==
    (pc = "loaded" /\ WellFormed(doc)) =>
        \A e \in EdgeSet(loaded) :
            \E rel \in Range(doc.relationships) :
                LET source == NodeOf(loaded, e.source)
                    target == NodeOf(loaded, e.target)
                IN  /\ rel.source.type = "drug"
                    /\ source.type = "drug"
                    /\ source.atccode = rel.source.id
                    /\ target.type = rel.target.type
                    /\ \/ target.type \in {"pubmed", "clinical_trial"}
                            /\ target.id = rel.target.id
                       \/ target.type = "journal"
                            /\ target.key = KeyOfJournal(rel.target.id)

-----------------------------------------------------------------------------
(* C24 *)

\* no two records of the list carry the same id
DistinctIds(publications) ==
    \A i, j \in 1..Len(publications) :
        publications[i].id = publications[j].id => i = j

\* C24: when build_graph has been called in run_pipeline, the pubmed list
\* it was given holds no two records of the same id, and neither does the
\* trial list.
C24_Deduplicated ==
    pc = "graph" => DistinctIds(pubmed) /\ DistinctIds(trials)

-----------------------------------------------------------------------------
(* C25 *)

\* the four extractions have returned and the locals hold what they returned
ExtractionsCompleted ==
    /\ ~IsRaised(ExtractDrugs(files.drugs))
    /\ ~IsRaised(ExtractPubmedCsv(files.pubmed_csv))
    /\ ~IsRaised(ExtractPubmedJson(files.pubmed_json))
    /\ ~IsRaised(ExtractClinicalTrials(files.clinical_trials))
    /\ drugs = ExtractDrugs(files.drugs).returned
    /\ pubmed_csv_list = ExtractPubmedCsv(files.pubmed_csv).returned
    /\ pubmed_json_list = ExtractPubmedJson(files.pubmed_json).returned
    /\ trials = ExtractClinicalTrials(files.clinical_trials).returned

\* the graph is what one build_graph on a new transformer returns for the
\* extracted lists
GraphOfTheBuild(g) ==
    /\ builds = 1
    /\ ExtractionsCompleted
    /\ \E js \in Orders(ExtractJournals(pubmed \o trials)) :
          g = BuildGraph(EmptyGraph, drugs, pubmed, trials, js)

\* C25: in run_pipeline a build_graph call is made only when the four
\* extractions have returned, the JSON and the GML file are written only
\* after build_graph has returned, and what is written is the export of the
\* graph that build returned.
C25_Ordering ==
    [][ /\ builds' # builds => ExtractionsCompleted /\ builds = 0
        /\ doc' # doc => GraphOfTheBuild(graph) /\ doc' = SaveGraphToJson(graph)
        /\ gml' # gml => GraphOfTheBuild(graph) /\ gml' = WriteGml(graph)
      ]_vars

C25_Witness ==
    /\ pc = "returned"
    /\ doc = SaveGraphToJson(graph)
    /\ gml = WriteGml(graph)
    /\ trials # <<>>
    /\ graph.edges # <<>>

-----------------------------------------------------------------------------
(* C26 *)

\* the outcome of the first extraction that raises, in the order of the run
FirstFailure ==
    LET d == ExtractDrugs(files.drugs)
        c == ExtractPubmedCsv(files.pubmed_csv)
        j == ExtractPubmedJson(files.pubmed_json)
        t == ExtractClinicalTrials(files.clinical_trials)
    IN  IF IsRaised(d) THEN [step |-> 1, outcome |-> d]
        ELSE IF IsRaised(c) THEN [step |-> 2, outcome |-> c]
        ELSE IF IsRaised(j) THEN [step |-> 3, outcome |-> j]
        ELSE IF IsRaised(t) THEN [step |-> 4, outcome |-> t]
        ELSE [step |-> 0, outcome |-> Returned(<<>>)]

\* where the run stands before each of the four extractions
PositionBefore == <<"run_pipeline", "drugs", "pubmed_csv", "pubmed_json">>

\* C26: in a run of run_pipeline one of whose extractions raises, the step
\* that raises ends the run with that error as the outcome; no result
\* dictionary is returned, neither output file is written, no graph is
\* built and the lists of the failing step and of the steps after it stay
\* unset.
C26_Failure ==
    /\ [](FirstFailure.step # 0 =>
            /\ pc \in {PositionBefore[k] : k \in 1..FirstFailure.step} \cup {"raised"}
            /\ "graph" \notin DOMAIN result
            /\ doc = NoDoc /\ gml = NoDoc
            /\ builds = 0 /\ graph = EmptyGraph /\ pubmed = <<>>
            /\ FirstFailure.step <= 1 => drugs = <<>>
            /\ FirstFailure.step <= 2 => pubmed_csv_list = <<>>
            /\ FirstFailure.step <= 3 => pubmed_json_list = <<>>
            /\ trials = <<>>
            /\ pc = "raised" => result = FirstFailure.outcome)
    /\ [][(FirstFailure.step # 0 /\ pc = PositionBefore[FirstFailure.step]) =>
            (pc' = "raised" /\ result' = FirstFailure.outcome)]_vars

C26_Witness ==
    /\ pc = "raised"
    /\ FirstFailure.step = 3
    /\ result = Raised("ValueError")
    /\ drugs # <<>>
    /\ pubmed_csv_list # <<>>

-----------------------------------------------------------------------------
(* C27 *)

\* load_graph_from_json raises on this path
CannotLoad(d) == d = NoDoc \/ LoadRaises(d)

\* C27: a query on a path whose document is missing or makes
\* load_graph_from_json fail answers (["Error processing journals"], 0);
\* a query on a document that loads never answers that, and the answer
\* differs from (["No journals found"], 0).
C27_NeverRaise ==
    pc = "answered" =>
        /\ CannotLoad(doc) => result = <<<<TxtErrorProcessing>>, 0>>
        /\ ~CannotLoad(doc) => result # <<<<TxtErrorProcessing>>, 0>>
        /\ CannotLoad(doc) => result # <<<<TxtNoJournalsFound>>, 0>>

\* a record of the document has no name, so the load fails inside
C27_Witness ==
    /\ pc = "answered"
    /\ doc # NoDoc
    /\ LoadRaises(doc)
    /\ query.name = "find_journals_with_most_mentions_of_drug"
    /\ result = <<<<TxtErrorProcessing>>, 0>>

-----------------------------------------------------------------------------
(* C28 *)

\* the two documents hold the same records, collection by collection
SameRecords(d1, d2) ==
    /\ Range(d1.drugs) = Range(d2.drugs)
    /\ Range(d1.publications.pubmed) = Range(d2.publications.pubmed)
    /\ Range(d1.publications.clinical_trials) = Range(d2.publications.clinical_trials)
    /\ Range(d1.journals) = Range(d2.journals)
    /\ Range(d1.relationships) = Range(d2.relationships)

\* C28: when the document written for a graph built from inputs without
\* node-key collisions has been loaded, exporting the loaded graph succeeds
\* and gives a document with the same drug, pubmed, clinical-trial, journal
\* and relationship records.
C28_FixedPoint ==
    (pc = "loaded" /\ builds = 1 /\ NoKeyCollisions) =>
        /\ ~SaveRaises(loaded)
        /\ SameRecords(SaveGraphToJson(loaded), doc)

-----------------------------------------------------------------------------
(* C29 *)

\* the records of the file that have an id, and the first of each id
WithId(rows) == SelectSeq(rows, LAMBDA row : row.id # None /\ row.id # <<>>)
RECURSIVE FirstOfEachId(_)
FirstOfEachId(rows) ==
    IF rows = <<>> THEN <<>>
    ELSE <<Head(rows)>> \o
         FirstOfEachId(SelectSeq(Tail(rows), LAMBDA row : row.id # Head(rows).id))

\* the date is written in one of the three formats; the date in YYYY-MM-DD
\* of such a date
Accepted(date) ==
    /\ date # None
    /\ \/ ParseYmd(date) # NoMatch
       \/ ParseDmy(date) # NoMatch
       \/ ParseDBY(date) # NoMatch
Normalised(date) == DateStr(ParseDate(date))

\* C29: extract on a file that is there and has the four columns raises if
\* the date of any record is in none of the three formats; otherwise it
\* returns, in the order of the file, one Publication for the first record
\* of each id among the records with a non-missing, non-empty id, with that
\* id, the title and the journal stripped, the date as YYYY-MM-DD and the
\* source pubmed.
C29_Extraction ==
    (pc = "extracted" /\ files.input_path.exists
        /\ files.input_path.columns = PubmedColumns) =>
        LET rows == files.input_path.rows
            kept == FirstOfEachId(WithId(rows))
        IN  IF \E i \in 1..Len(rows) : ~Accepted(rows[i].date)
            THEN IsRaised(result)
            ELSE result = Returned(
                    [i \in 1..Len(kept) |->
                        Publication(kept[i].id, Strip(kept[i].title),
                                    Normalised(kept[i].date),
                                    Strip(kept[i].journal), "pubmed")])

====
